---- MODULE Spec2Model ----
(***************************************************************************)
(* A model of rlua's bridging layer (src/src/lua.rs): the evaluation       *)
(* stack, the registry of pinned references, value marshaling, protected   *)
(* calls, the callback trampoline and coroutine handles.                   *)
(*                                                                         *)
(* Engine values are records [ty, tag, v]: ty is the engine's type name,   *)
(* tag the subtype (int / float for numbers, the private sentinel for      *)
(* userdata, the text of a message string), v an integer payload or an     *)
(* object id.  Host values are records [var, v, rid, lua]: the Value       *)
(* variant, its scalar, and the LuaRef it wraps (rid 0 for a scalar).      *)
(***************************************************************************)
EXTENDS Integers, Sequences, FiniteSets, TLC

VARIABLES
    stack,      \* the evaluation stack of lua.state (the main state)
    reg,        \* the engine registry: [arr, free] (luaL_ref / luaL_unref)
    fns,        \* function objects of the engine heap, by object id
    threads,    \* coroutine objects of the engine heap, by object id
    handles,    \* the LuaRef handles the host holds
    borrowed,   \* RefCell borrow flags: the host closures mutably borrowed
    closes,     \* how many times lua_close ran on the engine instance
    alive,      \* the owning Lua has not been dropped
    heap,       \* tables and userdata of the engine heap: [n, dead, mt], how
                \* many were made, which of them the collector has freed, and
                \* the registry id cached for the userdata metatable (0: none)
    last        \* what the latest host operation did and returned

vars == <<stack, reg, fns, threads, handles, borrowed, closes, alive, heap, last>>

----------------------------------------------------------------------------
(* Bounds of the model. *)

MaxYields == 2      \* a coroutine body yields at most this many times
MaxThreads == 1     \* coroutines created
MaxArgs == 2        \* length of an argument list, and the integers in it
MaxFns == 2         \* functions created in the call scenario
MaxStack == 2       \* slots on the stack, values in a running frame
MaxObjects == 2     \* tables made in the registry scenario
MaxHandles == 2     \* handles held at once
MaxUserdata == 3    \* userdata made in the userdata scenario
MaxBinds == 2       \* functions made by bind in the bind scenario

(* Engine status codes. *)
LUA_OK == 0
LUA_YIELD == 1
LUA_ERRRUN == 2
LUA_ERRSYNTAX == 3
LUA_RIDX_GLOBALS == 2

----------------------------------------------------------------------------
(* Engine values and host values. *)

Slot(ty, tag, v) == [ty |-> ty, tag |-> tag, v |-> v]
NilSlot == Slot("nil", "", 0)
IntSlot(i) == Slot("number", "int", i)
FloatSlot(n) == Slot("number", "float", n)
StrSlot(s) == Slot("string", "", s)
FnSlot(f) == Slot("function", "", f)
ThreadSlot(t) == Slot("thread", "", t)
WrappedErrorSlot(e) == Slot("userdata", "WrappedError", e)
WrappedPanicSlot(p) == Slot("userdata", "WrappedPanic", p)

Val(var, v, rid, lua) == [var |-> var, v |-> v, rid |-> rid, lua |-> lua]
NilVal == Val("Nil", 0, 0, "")
IntVal(i) == Val("Integer", i, 0, "")

(* A LuaRef: the context it was minted in and its registry id. *)
LuaRef(lua, rid) == [lua |-> lua, rid |-> rid]

(* The Lua struct: the state it runs on, the main state, the ephemeral flag. *)
Lua(state, main, eph) == [state |-> state, main_state |-> main, ephemeral |-> eph]
TopLua == Lua("L1", "L1", FALSE)

\* Value::type_name
type_name_m(value) ==
    CASE value.var = "Nil" -> "nil"
      [] value.var = "Boolean" -> "boolean"
      [] value.var \in {"Integer", "Number"} -> "number"
      [] value.var = "String" -> "string"
      [] value.var = "Table" -> "table"
      [] value.var = "Function" -> "function"
      [] value.var = "Thread" -> "thread"
      [] OTHER -> "userdata"
type_name(value) ==
    CASE value.var = "Nil" -> "nil"
      [] value.var = "Boolean" -> "boolean"
      [] value.var = "LightUserData" -> "light userdata"
      [] value.var = "Integer" -> "integer"
      [] value.var = "Number" -> "number"
      [] value.var = "String" -> "string"
      [] value.var = "Table" -> "table"
      [] value.var = "Function" -> "function"
      [] value.var = "Thread" -> "thread"
      [] OTHER -> "userdata"

(* Results of host operations: Ok(values), Err(error) or a host panic.     *)
(* err names the Error variant; cause is the payload (an external error,   *)
(* a panic payload), wraps the number of CallbackError layers around it.   *)
Res(kind, err, vals, cause, wraps) ==
    [kind |-> kind, err |-> err, vals |-> vals, cause |-> cause, wraps |-> wraps]
Ok(vals) == Res("Ok", "", vals, 0, 0)
Err(e) == Res("Err", e, <<>>, 0, 0)
PanicRes(p) == Res("Panic", "", <<>>, p, 0)
AbortRes == Res("Abort", "", <<>>, 0, 0)

(* An error message is an engine string; the model keeps its text in tag. *)
MsgSlot(text) == Slot("string", text, 0)

----------------------------------------------------------------------------
(* The evaluation stack (engine C API). *)

lua_gettop(s) == Len(s)

lua_settop(s, n) ==
    IF n <= Len(s) THEN SubSeq(s, 1, n)
    ELSE s \o [i \in 1..(n - Len(s)) |-> NilSlot]

\* lua_pop!(L, n) is lua_settop(L, -(n)-1)
lua_pop(s, n) == lua_settop(s, Len(s) - n)

Top(s) == s[Len(s)]

TopN(s, n) == SubSeq(s, Len(s) - n + 1, Len(s))

----------------------------------------------------------------------------
(* The registry (engine auxiliary library): integer keys handed out by     *)
(* luaL_ref, freed keys kept on a free list and reused first.              *)

InitReg ==
    [arr |-> <<ThreadSlot(0), Slot("table", "", 0)>>, free |-> <<>>]

lua_rawgeti(r, id) ==
    IF id \in 1..Len(r.arr) THEN r.arr[id] ELSE NilSlot

luaL_ref_m(r, x) ==
    IF x.ty = "nil" THEN [reg |-> r, id |-> 0 - 1]
    ELSE [reg |-> [arr |-> [r.arr EXCEPT ![Len(r.arr)] = x],
                   free |-> IF r.free = <<>> THEN <<>> ELSE Tail(r.free)],
          id |-> Len(r.arr)]
luaL_ref(r, x) ==
    IF x.ty = "nil" THEN [reg |-> r, id |-> 0 - 1]    \* LUA_REFNIL
    ELSE IF r.free # <<>>
         THEN [reg |-> [arr |-> [r.arr EXCEPT ![Head(r.free)] = x],
                        free |-> Tail(r.free)],
               id |-> Head(r.free)]
         ELSE [reg |-> [arr |-> Append(r.arr, x), free |-> <<>>],
               id |-> Len(r.arr) + 1]

luaL_unref(r, id) ==
    IF id \in 1..Len(r.arr)
    THEN [arr |-> [r.arr EXCEPT
                     ![id] = IF r.free = <<>> THEN NilSlot
                             ELSE IntSlot(Head(r.free))],
          free |-> <<id>> \o r.free]
    ELSE r

----------------------------------------------------------------------------
(* Reference pinning and value marshaling (lua.rs 967-1098). *)

(* A handle the host holds: the kind of object, the LuaRef, and (history)  *)
(* the object it was pinned to.                                            *)
Handle(kind, lref, obj) ==
    [kind |-> kind, lua |-> lref.lua, rid |-> lref.rid, obj |-> obj]

RefOf(h) == LuaRef(h.lua, h.rid)

\* the object a handle is pinned to
ObjOf(r, h) == lua_rawgeti(r, h.rid).v

\* the registry index of the engine's main thread
LUA_RIDX_MAINTHREAD == 1

\* the execution state a thread object stands for: thread 0 is the main
\* state of this instance, thread t a coroutine
StateOf(t) == IF t = 0 THEN TopLua.state ELSE ToString(t)

\* main_state(state): the main thread of the instance state belongs to, read
\* from the registry all of the instance's states share
main_state_m(r, state) == state
main_state(r, state) == StateOf(lua_rawgeti(r, LUA_RIDX_MAINTHREAD).v)

\* push_ref: asserts the handle's main state, then lua_rawgeti on the registry
push_ref_m(lua, s, r, lref) ==
    [abort |-> FALSE, stack |-> Append(s, lua_rawgeti(r, lref.rid))]
push_ref(lua, s, r, lref) ==
    IF lref.lua # lua.main_state
    THEN [abort |-> TRUE, stack |-> s]
    ELSE [abort |-> FALSE, stack |-> Append(s, lua_rawgeti(r, lref.rid))]

\* pop_ref: luaL_ref pops the top slot into the registry
pop_ref_m(lua, s, r) ==
    [stack |-> lua_pop(s, 1), reg |-> r,
     lref |-> LuaRef(lua.main_state, luaL_ref(r, Top(s)).id)]
pop_ref(lua, s, r) ==
    LET ref == luaL_ref(r, Top(s))
    IN [stack |-> lua_pop(s, 1), reg |-> ref.reg,
        lref |-> LuaRef(lua.main_state, ref.id)]

\* Drop for LuaRef: luaL_unref of its registry id
drop_ref(r, lref) == luaL_unref(r, lref.rid)

IsRefVal(value) ==
    value.var \in {"String", "Table", "Function", "Thread", "UserData"}

\* dropping host values: every reference value's LuaRef is released
RECURSIVE DropValues(_, _)
DropValues(r, vals) ==
    IF vals = <<>> THEN r
    ELSE DropValues(IF IsRefVal(Head(vals))
                    THEN drop_ref(r, LuaRef(Head(vals).lua, Head(vals).rid))
                    ELSE r,
                    Tail(vals))

\* push_wrapped_error: a userdata carrying the wrapped-error marker
push_wrapped_error_m(s, e) == s
push_wrapped_error(s, e) == Append(s, WrappedErrorSlot(e))

\* pop_wrapped_error: Some(err) and the slot popped, only for that marker
pop_wrapped_error_m(s) ==
    IF s # <<>> /\ Top(s).ty = "userdata"
    THEN [some |-> TRUE, err |-> Top(s).v, stack |-> lua_pop(s, 1)]
    ELSE [some |-> FALSE, err |-> 0, stack |-> s]
pop_wrapped_error(s) ==
    IF s # <<>> /\ Top(s).ty = "userdata" /\ Top(s).tag = "WrappedError"
    THEN [some |-> TRUE, err |-> Top(s).v, stack |-> lua_pop(s, 1)]
    ELSE [some |-> FALSE, err |-> 0, stack |-> s]

\* push_value consumes the Value: a reference variant's LuaRef is dropped
\* once its object is on the stack; abort is the failed assertion of
\* push_ref, after which the Value is dropped in the Lua it belongs to
push_value(lua, s, r, value) ==
    LET Scalar(x) == [stack |-> Append(s, x), reg |-> r, abort |-> FALSE]
        Referred(p) ==
            [stack |-> p.stack,
             reg |-> IF p.abort THEN r
                     ELSE drop_ref(r, LuaRef(value.lua, value.rid)),
             abort |-> p.abort]
    IN CASE value.var = "Nil" -> Scalar(NilSlot)
         [] value.var = "Boolean" ->
               Scalar(Slot("boolean", "", IF value.v # 0 THEN 1 ELSE 0))
         [] value.var = "LightUserData" -> Scalar(Slot("lightuserdata", "", value.v))
         [] value.var = "Integer" -> Scalar(IntSlot(value.v))
         [] value.var = "Number" -> Scalar(FloatSlot(value.v))
         [] value.var = "Error" ->
               [stack |-> push_wrapped_error(s, value.v), reg |-> r,
                abort |-> FALSE]
         [] OTHER -> Referred(push_ref(lua, s, r, LuaRef(value.lua, value.rid)))

\* lua_isinteger: the integer-subtype flag of a number slot
lua_isinteger_m(x) == IF x.tag = "int" \/ x.v % 2 = 0 THEN 1 ELSE 0
lua_isinteger(x) == IF x.tag = "int" THEN 1 ELSE 0

pop_value(lua, s, r) ==
    LET AsRef(var, pinned) ==
            [val |-> Val(var, 0, pinned.lref.rid, pinned.lref.lua),
             stack |-> pinned.stack, reg |-> pinned.reg]
        AsScalar(val) == [val |-> val, stack |-> lua_pop(s, 1), reg |-> r]
        AsError(w) ==
            [val |-> Val("Error", w.err, 0, ""), stack |-> w.stack, reg |-> r]
        AsUserData(w) ==
            IF w.some THEN AsError(w) ELSE AsRef("UserData", pop_ref(lua, s, r))
        Of(x) ==
            CASE x.ty = "nil" -> AsScalar(NilVal)
              [] x.ty = "boolean" -> AsScalar(Val("Boolean", x.v, 0, ""))
              [] x.ty = "lightuserdata" -> AsScalar(Val("LightUserData", x.v, 0, ""))
              [] x.ty = "number" ->
                    AsScalar(IF lua_isinteger(x) # 0 THEN IntVal(x.v)
                             ELSE Val("Number", x.v, 0, ""))
              [] x.ty = "userdata" -> AsUserData(pop_wrapped_error(s))
              [] OTHER ->
                    AsRef(CASE x.ty = "string" -> "String"
                            [] x.ty = "table" -> "Table"
                            [] x.ty = "function" -> "Function"
                            [] x.ty = "thread" -> "Thread",
                          pop_ref(lua, s, r))
    IN Of(Top(s))

\* for arg in args { lua.push_value(state, arg) }
RECURSIVE PushValues_m(_, _, _, _)
PushValues_m(lua, s, r, vals) ==
    LET Next1(p) ==
            IF p.abort THEN p
            ELSE PushValues_m(lua, p.stack, p.reg, SubSeq(vals, 1, Len(vals) - 1))
    IN IF vals = <<>> THEN [stack |-> s, reg |-> r, abort |-> FALSE]
       ELSE Next1(push_value(lua, s, r, vals[Len(vals)]))
RECURSIVE PushValues(_, _, _, _)
PushValues(lua, s, r, vals) ==
    LET Next1(p) ==         \* a value push_ref refuses ends the loop
            IF p.abort THEN p
            ELSE PushValues(lua, p.stack, p.reg, Tail(vals))
    IN IF vals = <<>> THEN [stack |-> s, reg |-> r, abort |-> FALSE]
       ELSE Next1(push_value(lua, s, r, Head(vals)))

\* for _ in 0..n { results.push_front(lua.pop_value(state)) }
RECURSIVE PopValues_m(_, _, _, _)
PopValues_m(lua, s, r, n) ==
    LET Back(p, rest) ==
            [vals |-> <<p.val>> \o rest.vals, stack |-> rest.stack,
             reg |-> rest.reg]
        Rest(p) == Back(p, PopValues_m(lua, p.stack, p.reg, n - 1))
    IN IF n = 0 THEN [vals |-> <<>>, stack |-> s, reg |-> r]
       ELSE Rest(pop_value(lua, s, r))
RECURSIVE PopValues(_, _, _, _)
PopValues(lua, s, r, n) ==
    LET Front(p, rest) ==
            [vals |-> Append(rest.vals, p.val), stack |-> rest.stack,
             reg |-> rest.reg]
        Rest(p) == Front(p, PopValues(lua, p.stack, p.reg, n - 1))
    IN IF n = 0 THEN [vals |-> <<>>, stack |-> s, reg |-> r]
       ELSE Rest(pop_value(lua, s, r))

----------------------------------------------------------------------------
(* Stack Guard and the error bridge (spec 4.1, 4.4).  An operation's body  *)
(* yields a record with the stack it leaves and its result res.            *)

\* the infallible guard: any depth mismatch is a fatal abort
stack_guard(s0, change, out) ==
    IF lua_gettop(out.stack) = lua_gettop(s0) + change THEN out
    ELSE [out EXCEPT !.res = AbortRes]

\* the fallible guard: a final Err is tolerated and balance is enforced
\* (history: seen is the depth at which the body returned)
stack_err_guard(s0, change, out) ==
    LET expected == lua_gettop(s0) + change
        top == lua_gettop(out.stack)
        Seen(g) == g @@ [seen |-> top]
    IN Seen(IF out.res.kind = "Ok"
            THEN IF top = expected THEN out ELSE [out EXCEPT !.res = AbortRes]
            ELSE IF top >= expected
                 THEN [out EXCEPT !.stack = lua_settop(out.stack, expected)]
                 ELSE [out EXCEPT !.res = AbortRes])

\* the message handler of pcall_with_traceback: a wrapped error becomes a
\* CallbackError around it, a wrapped panic is left alone, a message gets
\* the traceback appended
message_handler_m(x) ==
    IF x.ty = "string" THEN Slot("string", x.tag, 1) ELSE x
message_handler(x) ==
    IF x.ty = "userdata" /\ x.tag = "WrappedError" THEN WrappedErrorSlot(x.v + 100)
    ELSE IF x.ty = "string" THEN Slot("string", x.tag, 1)
    ELSE x

\* handle_error: a zero or yield status is success; otherwise the single
\* error value is popped and classified
handle_error(s, code) ==
    LET Wrapped(w) ==
            [stack |-> w.stack,
             res |-> Res("Err", IF w.err >= 100 THEN "CallbackError"
                                ELSE "ExternalError",
                         <<>>, w.err % 100, w.err \div 100)]
        Other(x) ==
            [stack |-> lua_pop(s, 1),
             res |-> IF x.ty = "userdata" /\ x.tag = "WrappedPanic"
                     THEN PanicRes(x.v)
                     ELSE IF code = LUA_ERRSYNTAX THEN Err("SyntaxError")
                     ELSE Err("RuntimeError")]
        Classified(w) == IF w.some THEN Wrapped(w) ELSE Other(Top(s))
    IN IF code = LUA_OK \/ code = LUA_YIELD THEN [stack |-> s, res |-> Ok(<<>>)]
       ELSE Classified(pop_wrapped_error(s))

----------------------------------------------------------------------------
(* Coroutines.  A thread object is [status, stack, pc, fn] and a history   *)
(* field: the engine's status code, the thread's own stack, the number of  *)
(* steps its body has run, the function it runs (0 before the first        *)
(* resume); phase names what last happened to the body (fresh, suspended,  *)
(* returned, errored).                                                     *)
(* A script function is [k, n, end, r, g]: a Lua function (k = "lua")      *)
(* yields n times, the i-th time yielding i followed by the values it was  *)
(* resumed with, and then ends: it returns 0 followed by the values it     *)
(* was last resumed with, or raises an error from a frame holding r        *)
(* values (the host tests only whether the stack is empty: r is 0 or 1).   *)

FnDef(k, n, end, r, g) ==
    [k |-> k, n |-> n, end |-> end, r |-> r, g |-> g, up |-> <<>>]

NewThread ==
    [status |-> LUA_OK, stack |-> <<>>, pc |-> 0, fn |-> 0,
     phase |-> "fresh"]

\* what a call runs against: the registry, the closures being executed, the
\* count of lua_close calls, the trail of events and the state the engine
\* is executing (the main state unless a coroutine is named)
Ctx(r, b, cl, lg) ==
    [reg |-> r, borrowed |-> b, closes |-> cl, log |-> lg,
     state |-> TopLua.state]

RECURSIVE lua_call(_, _, _, _, _)
RECURSIVE callback_call_impl(_, _, _, _, _)
RECURSIVE pcall_with_traceback(_, _, _, _, _)
RECURSIVE Function_call_body(_, _, _, _, _, _, _, _, _)
RECURSIVE Function_call(_, _, _, _, _, _, _, _, _)

\* lua_resume (engine): start or continue the body with the nargs values on
\* top of the thread's stack.  On a yield or a return the stack holds the
\* values passed out; on an error the stack is not unwound and the error
\* object is on its top; a dead thread's resume pops the arguments and
\* pushes a message.  A body that ends with "call" passes the values it
\* was last resumed with to function g and returns what g returns; what g
\* raises is raised from the body's frame, which holds those values (they
\* are scalars, and g a host closure that holds no handle: the call leaves
\* the registry and the closures' guards as they were).
lua_resume(th, fs, nargs) ==
    LET args == TopN(th.stack, nargs)
        refuse(msg) ==
            [th |-> [th EXCEPT !.stack = Append(lua_pop(th.stack, nargs),
                                                MsgSlot(msg))],
             ret |-> LUA_ERRRUN]
        Called(fn, i, ran) ==
            IF ran.ret = LUA_OK
            THEN [th |-> [th EXCEPT !.status = LUA_OK, !.stack = ran.vals,
                                    !.pc = i, !.fn = fn, !.phase = "returned"],
                  ret |-> LUA_OK]
            ELSE [th |-> [th EXCEPT !.status = LUA_ERRRUN,
                                    !.stack = args \o <<ran.vals[1]>>,
                                    !.pc = i, !.fn = fn, !.phase = "errored"],
                  ret |-> LUA_ERRRUN]
        Step(fn, def, i) ==
            IF i <= def.n
            THEN [th |-> [th EXCEPT !.status = LUA_YIELD,
                                    !.stack = <<IntSlot(i)>> \o args,
                                    !.pc = i, !.fn = fn, !.phase = "suspended"],
                  ret |-> LUA_YIELD]
            ELSE IF def.end = "return"
            THEN [th |-> [th EXCEPT !.status = LUA_OK,
                                    !.stack = <<IntSlot(0)>> \o args,
                                    !.pc = i, !.fn = fn, !.phase = "returned"],
                  ret |-> LUA_OK]
            ELSE IF def.end = "call"
            THEN Called(fn, i, lua_call(fs, {}, def.g, args,
                                        Ctx(InitReg, {}, 0, <<>>)))
            ELSE [th |-> [th EXCEPT !.status = LUA_ERRRUN,
                                    !.stack = [j \in 1..def.r |-> MsgSlot("boom")]
                                              \o <<MsgSlot("boom")>>,
                                    !.pc = i, !.fn = fn, !.phase = "errored"],
                  ret |-> LUA_ERRRUN]
        Run(fn) == Step(fn, fs[fn], th.pc + 1)
    IN IF th.phase = "running"
       THEN refuse("cannot resume non-suspended coroutine")
       ELSE IF th.status # LUA_OK /\ th.status # LUA_YIELD
       THEN refuse("cannot resume dead coroutine")
       ELSE IF th.status = LUA_OK /\ (th.pc > 0 \/ Len(th.stack) <= nargs)
       THEN refuse("cannot resume dead coroutine")
       ELSE Run(IF th.pc = 0 THEN th.stack[Len(th.stack) - nargs].v ELSE th.fn)

\* resume_with_traceback: lua_resume, and what a failed resume raised is
\* treated as the message handler treats it (v = 1 marks the traceback
\* appended to a message)
resume_with_traceback(th, fs, nargs) ==
    LET Traced(rr, top) ==
            IF rr.ret # LUA_OK /\ rr.ret # LUA_YIELD
            THEN [rr EXCEPT !.th.stack[Len(rr.th.stack)] = message_handler(top)]
            ELSE rr
        Resumed(rr) == Traced(rr, Top(rr.th.stack))
    IN Resumed(lua_resume(th, fs, nargs))

\* the test of lua.rs 379-380: neither suspended nor holding anything
resume_inactive_m(status, top) == status # LUA_YIELD
resume_inactive(status, top) == status # LUA_YIELD /\ top = 0

\* Thread::resume, the closure handed to stack_err_guard (lua.rs 373-406).
\* aconv / rconv: whether args.to_lua_multi / R::from_lua_multi succeed.
Thread_resume_body(lua, s, r, ths, fs, self, args, aconv, rconv) ==
    LET nargs == Len(args)
        \* a failed R::from_lua_multi drops the results it was given
        Results(s2, t, rr, popped) ==
            [stack |-> s2,
             reg |-> IF rconv THEN popped.reg
                     ELSE DropValues(popped.reg, popped.vals),
             threads |-> [ths EXCEPT ![t] = [rr.th EXCEPT !.stack = popped.stack]],
             res |-> IF rconv THEN Ok(popped.vals)
                     ELSE Err("FromLuaConversionError")]
        Checked(s2, t, pushed, rr, he) ==
            IF he.res.kind # "Ok"
            THEN [stack |-> s2, reg |-> pushed.reg,
                  threads |-> [ths EXCEPT ![t] = [rr.th EXCEPT !.stack = he.stack]],
                  res |-> he.res]
            ELSE Results(s2, t, rr,
                         PopValues(lua, rr.th.stack, pushed.reg,
                                   lua_gettop(rr.th.stack)))       \* nresults
        Resumed(s2, t, pushed, rr) ==
            Checked(s2, t, pushed, rr, handle_error(rr.th.stack, rr.ret))
        Pushed(s2, t, th, pushed) ==
            Resumed(s2, t, pushed,
                    resume_with_traceback([th EXCEPT !.stack = pushed.stack],
                                          fs, nargs))
        \* th.status is lua_status(thread_state)
        \* and lua_gettop(thread_state) counts the reference just pushed when
        \* lua.state is the coroutine itself
        Active(s1, t, th) ==
            IF resume_inactive(th.status,
                               lua_gettop(IF lua.state = ToString(t) THEN s1
                                          ELSE th.stack))
            THEN [stack |-> s1, reg |-> r, threads |-> ths,
                  res |-> Err("CoroutineInactive")]
            ELSE IF ~aconv
            THEN [stack |-> lua_pop(s1, 1), reg |-> r, threads |-> ths,
                  res |-> Err("ToLuaConversionError")]
            ELSE Pushed(lua_pop(s1, 1), t, th,
                        PushValues(lua, th.stack, r, args))
        ToThread(s1, t) == Active(s1, t, ths[t])
        Pinned(s1) == ToThread(s1, Top(s1).v)   \* lua_tothread(lua.state, -1)
    IN Pinned(push_ref(lua, s, r, self).stack)

Thread_resume_m(lua, s, r, ths, fs, self, args, aconv, rconv) ==
    LET t == Top(push_ref(lua, s, r, self).stack).v
        Early(out) ==
            IF out.res.kind = "Err" /\ out.threads = ths
            THEN [out EXCEPT !.threads[t].stack = @ \o <<NilSlot>>]
            ELSE out
    IN Early(stack_err_guard(s, 0,
         Thread_resume_body(lua, s, r, ths, fs, self, args, aconv, rconv)))
\* Thread::resume (lua.rs 366-408)
Thread_resume(lua, s, r, ths, fs, self, args, aconv, rconv) ==
    stack_err_guard(s, 0,
        Thread_resume_body(lua, s, r, ths, fs, self, args, aconv, rconv))

\* the classification of lua.rs 421-428
status_of_m(status, top) ==
    IF status # LUA_OK /\ status # LUA_YIELD THEN "Error"
    ELSE IF status = LUA_YIELD THEN "Resumable"
    ELSE "Unresumable"
status_of(status, top) ==
    IF status # LUA_OK /\ status # LUA_YIELD THEN "Error"
    ELSE IF status = LUA_YIELD \/ top > 0 THEN "Resumable"
    ELSE "Unresumable"

\* Thread::status (lua.rs 411-431)
Thread_status(lua, s, r, ths, self) ==
    LET Of(s2, th) ==
            [stack |-> s2, res |-> Ok(<<>>),
             status |-> status_of(th.status, lua_gettop(th.stack))]
        \* lua_tothread(lua.state, -1)
        Pinned(s1) == Of(lua_pop(s1, 1), ths[Top(s1).v])
    IN stack_guard(s, 0, Pinned(push_ref(lua, s, r, self).stack))

\* what the engine shows of a coroutine while its body runs: lua_status is
\* LUA_OK, and lua_gettop counts the k values of the frame that is running
\* (a host closure's frame once its arguments are popped holds none;
\* coroutine.resume's frame holds the coroutine it resumed)
running_view(th, k) ==
    [th EXCEPT !.status = LUA_OK, !.stack = [i \in 1..k |-> NilSlot],
               !.phase = "running"]

\* Lua::create_thread (lua.rs 753-764); func is consumed and dropped
create_thread(lua, s, r, ths, func) ==
    LET th == [NewThread EXCEPT !.stack = push_ref(lua, <<>>, r, func).stack]
        Made(pinned) ==
            [stack |-> pinned.stack, reg |-> drop_ref(pinned.reg, func),
             threads |-> Append(ths, th), lref |-> pinned.lref, res |-> Ok(<<>>)]
    IN stack_guard(s, 0,                                \* lua_newthread
         Made(pop_ref(lua, Append(s, ThreadSlot(Len(ths) + 1)), r)))

\* Lua::load (lua.rs 576-610): luaL_loadbuffer leaves the compiled function,
\* or an error message, on the stack
load(lua, s, r, fs, def, compiles) ==
    LET Loaded(pinned) ==
            [stack |-> pinned.stack, reg |-> pinned.reg,
             fns |-> Append(fs, def), lref |-> pinned.lref, res |-> Ok(<<>>)]
        Checked(he) ==
            IF he.res.kind # "Ok"
            THEN [stack |-> he.stack, reg |-> r, fns |-> fs,
                  lref |-> LuaRef("", 0), res |-> he.res]
            ELSE Loaded(pop_ref(lua, he.stack, r))
    IN stack_err_guard(s, 0,
         IF compiles
         THEN Checked(handle_error(Append(s, FnSlot(Len(fs) + 1)), LUA_OK))
         ELSE Checked(handle_error(Append(s, MsgSlot("syntax error")),
                                   LUA_ERRSYNTAX)))

----------------------------------------------------------------------------
(* Calls.  Besides coroutine bodies (k = "lua", end "return" or "error") a *)
(* function object is                                                      *)
(*   k = "lua", end "call" / "pcall" / "coresume": a script function that  *)
(*     passes its arguments to function g, plainly, under pcall (xpcall    *)
(*     with a handler returning what it is given behaves alike), or in a   *)
(*     new coroutine through coroutine.resume, and returns what that       *)
(*     gives;                                                              *)
(*   k = "callback": a host closure made by create_function whose body     *)
(*     returns its arguments ("ok"), returns Err ("err"), panics           *)
(*     ("panic"), or calls the Function handle it holds to g and returns   *)
(*     its results, passing an Err on with `?` ("call");                   *)
(*   k = "bound": the closure made by Function::bind over g with the       *)
(*     values up.                                                          *)
(* The part of the state a call can change is c = [reg, borrowed, closes,  *)
(* log]; log lists what happened to host closures during the operation.    *)

\* upvalue 1 is the function g, upvalue 2 the count nbinds (field r), the
\* upvalues from 3 on are the bound values up
BoundDef(g, nbinds, up) ==
    [k |-> "bound", n |-> 0, end |-> "", r |-> nbinds, g |-> g, up |-> up]

Event(ev, f, tag) == [ev |-> ev, f |-> f, tag |-> tag]

\* what running a function hands back: ret = LUA_OK and the values it
\* returned, ret = LUA_ERRRUN and the one error object it raised, or a
\* negative ret when the process aborted underneath it
Ran(ret, vals, c) == [ret |-> ret, vals |-> vals, c |-> c]

BoolSlot(b) == Slot("boolean", "", IF b THEN 1 ELSE 0)

is_wrapped_panic(x) == x.ty = "userdata" /\ x.tag = "WrappedPanic"

\* the numeric payload a WrappedError carries for a host error: the cause
\* (1..49 a closure's own error, 50.. an error of the crate) plus 100 for
\* each CallbackError wrapped around it
ErrorCode(res) ==
    CASE res.err = "ExternalError" -> res.cause
      [] res.err = "CallbackError" -> res.cause + 100 * res.wraps
      [] res.err = "RuntimeError" -> 50
      [] res.err = "SyntaxError" -> 51
      [] res.err = "CoroutineInactive" -> 52
      [] res.err = "ToLuaConversionError" -> 53
      [] OTHER -> 54

\* Drop for Lua (lua.rs 441-449): only the owning context closes the engine
Lua_drop_m(lua, n) == n + 1
Lua_drop(lua, n) == IF ~lua.ephemeral THEN n + 1 ELSE n

\* RefCell::try_borrow_mut on the closure slot (lua.rs 918)
try_borrow_mut_m(b, f) == b = {}
try_borrow_mut(b, f) == f \notin b

\* Drop for the RefMut `func` (lua.rs 918-944): it goes out of scope when
\* the closure passed to callback_error returns Ok or Err, and when a panic
\* unwinds through it; kind is how the body ended
drop_func_m(b, f, kind) == IF kind = "Panic" THEN b ELSE b \ {f}
drop_func(b, f, kind) == b \ {f}

\* lua.rs 920-925: lua_panic! empties the frame and panics with the message
\* (payload 2); callback_error catches the panic and raises it wrapped
recursive_callback_m(f, c) ==
    Ran(LUA_ERRRUN, <<WrappedErrorSlot(152)>>,
        [c EXCEPT !.log = Append(@, Event("reentry", f, "WrappedError"))])
recursive_callback(f, c) ==
    Ran(LUA_ERRRUN, <<WrappedPanicSlot(2)>>,
        [c EXCEPT !.log = Append(@, Event("reentry", f, "WrappedPanic"))])

\* safe_pcall / safe_xpcall, the overrides installed by Lua::new
\* (lua.rs 532-543): as pcall, but a wrapped panic is raised again
safe_pcall(ran) ==
    IF ran.ret = LUA_OK THEN [ran EXCEPT !.vals = <<BoolSlot(TRUE)>> \o @]
    ELSE IF ran.ret < 0 \/ is_wrapped_panic(ran.vals[1]) THEN ran
    ELSE [ran EXCEPT !.ret = LUA_OK, !.vals = <<BoolSlot(FALSE)>> \o @]

\* coroutine.resume of the stock library opened at lua.rs 484: whatever the
\* coroutine raised is returned after false
\* (the log notes a wrapped panic handed to the script this way)
auxresume(f, ran) ==
    IF ran.ret = LUA_OK THEN [ran EXCEPT !.vals = <<BoolSlot(TRUE)>> \o @]
    ELSE IF ran.ret < 0 THEN ran
    ELSE [ran EXCEPT !.ret = LUA_OK, !.vals = <<BoolSlot(FALSE)>> \o @,
                     !.c.log = IF is_wrapped_panic(ran.vals[1])
                               THEN Append(@, Event("surfaced", f, "WrappedPanic"))
                               ELSE @]

\* the host's handle to function object g
HandleTo(hs, r, g) ==
    CHOOSE h \in hs : h.kind = "Function" /\ lua_rawgeti(r, h.rid).v = g

\* lua_rotate(L, idx, n): the slots from idx to the top are rotated n
\* positions towards the top
lua_rotate(s, idx, n) ==
    SubSeq(s, 1, idx - 1) \o SubSeq(s, Len(s) - n + 1, Len(s))
                          \o SubSeq(s, idx, Len(s) - n)

\* bind_call_impl (lua.rs 260-278) up to its lua_call: the frame, entered
\* holding the caller's arguments, is grown, rotated and filled so that it
\* holds the function, the bound values and then the arguments
bind_call_impl_m(def, args) ==
    LET nargs == lua_gettop(args)
        nbinds == def.r                 \* lua_tointeger(upvalue 2)
        Fill(s) ==
            [i \in 1..Len(s) |->
                IF i = 1 THEN FnSlot(def.g)             \* lua_replace(state, 1)
                ELSE IF i <= nbinds + 1 THEN def.up[i - 1]  \* lua_replace(i + 2)
                ELSE s[i]]
    IN Fill(lua_settop(args, nargs + nbinds + 1))
bind_call_impl(def, args) ==
    LET nargs == lua_gettop(args)
        nbinds == def.r                 \* lua_tointeger(upvalue 2)
        Fill(s) ==
            [i \in 1..Len(s) |->
                IF i = 1 THEN FnSlot(def.g)             \* lua_replace(state, 1)
                ELSE IF i <= nbinds + 1 THEN def.up[i - 1]  \* lua_replace(i + 2)
                ELSE s[i]]
    IN Fill(lua_rotate(lua_settop(args, nargs + nbinds + 1), 1, nbinds + 1))

\* the engine calls function object f with the values args
lua_call(fs, hs, f, args, c) ==
    LET def == fs[f]
        inner == lua_call(fs, hs, def.g, args, c)
        \* lua_call(state, nargs + nbinds, LUA_MULTRET); lua_gettop(state)
        Frame(s) == lua_call(fs, hs, s[1].v, Tail(s), c)
    IN CASE def.k = "callback" -> callback_call_impl(fs, hs, f, args, c)
         [] def.k = "bound" -> Frame(bind_call_impl(def, args))
         [] def.k = "lua" /\ def.n > 0 ->
               Ran(LUA_ERRRUN,
                   <<MsgSlot("attempt to yield from outside a coroutine")>>, c)
         [] def.k = "lua" /\ def.end = "return" ->
               Ran(LUA_OK, <<IntSlot(0)>> \o args, c)
         [] def.k = "lua" /\ def.end = "error" ->
               Ran(LUA_ERRRUN, <<MsgSlot("boom")>>, c)
         [] def.k = "lua" /\ def.end = "echo" ->   \* function(...) return ... end
               Ran(LUA_OK, args, c)
         [] def.k = "lua" /\ def.end = "call" -> inner
         [] def.k = "lua" /\ def.end = "pcall" -> safe_pcall(inner)
         [] def.k = "lua" /\ def.end = "coresume" -> auxresume(f, inner)

\* the first of a list of values, if there is one, and the others
FirstOf(vals) == IF vals = <<>> THEN <<>> ELSE <<vals[1]>>
RestOf(vals) == IF vals = <<>> THEN <<>> ELSE Tail(vals)

\* Clone for a value's LuaRef: the handle's own context pushes the object and
\* pins it again; a value of another instance is pinned again in that
\* instance's registry, under an id this registry knows nothing about
LuaRef_clone(r, v) ==
    LET Again(ref) == [val |-> [v EXCEPT !.rid = ref.id], reg |-> ref.reg]
    IN IF v.lua = TopLua.main_state
       THEN Again(luaL_ref(r, lua_rawgeti(r, v.rid)))
       ELSE [val |-> v, reg |-> r]

\* callback_call_impl (lua.rs 909-945), inside callback_error: args is the
\* frame the engine hands to the C function.  On success the engine takes
\* the top nresults slots of the frame as the results (history: frame is
\* the frame as the function leaves it, nresults the count it returns).
callback_call_impl(fs, hs, f, args, c) ==
    LET lua == Lua(c.state, main_state(c.reg, c.state), TRUE) \* lua.rs 911-915
        def == fs[f]
        nargs == lua_gettop(args)
        Returned(c1, res) == [c |-> c1, res |-> res]
        Held(out) == Returned(out.c, out.res)
        \* the RefMut and the ephemeral Lua go out of scope on every path
        Left(body) ==
            [body.c EXCEPT !.borrowed = drop_func(@, f, body.res.kind),
                           !.closes = Lua_drop(lua, @),
                           !.log = Append(@, Event("exit", f, body.res.kind))]
        Raise(body, left, pushed) ==
            CASE body.res.kind = "Ok" ->
                   Ran(LUA_OK, TopN(pushed.stack, Len(body.res.vals)),
                       [left EXCEPT !.reg = pushed.reg])
                     @@ [frame |-> pushed.stack, nresults |-> Len(body.res.vals)]
              [] body.res.kind = "Err" ->   \* push_wrapped_error, lua_error
                   Ran(LUA_ERRRUN, <<WrappedErrorSlot(ErrorCode(body.res))>>, left)
              [] body.res.kind = "Panic" -> \* push_wrapped_panic, lua_error
                   Ran(LUA_ERRRUN, <<WrappedPanicSlot(body.res.cause)>>, left)
              [] body.res.kind = "Abort" -> Ran(0 - 1, <<>>, left)
        Refused(body, left, pushed) ==
            IF body.res.kind = "Ok" /\ pushed.abort
            THEN Ran(0 - 1, <<>>, left)
            ELSE Raise(body, left, pushed)
        Push(body, left, st) ==
            Refused(body, left, PushValues(lua, st, left.reg, body.res.vals))
        Finish(body, st) == Push(body, Left(body), st)
        Body(popped, c1) ==                      \* func.deref_mut()(&lua, args)
            CASE def.end = "ok" -> Returned(c1, Ok(popped.vals))
              [] def.end = "first" ->         \* the other arguments are dropped
                    Returned([c1 EXCEPT !.reg = DropValues(@, RestOf(popped.vals))],
                             Ok(FirstOf(popped.vals)))
              [] def.end = "err" ->
                    Returned([c1 EXCEPT !.reg = DropValues(@, popped.vals)],
                             Res("Err", "ExternalError", <<>>, 7, 0))
              [] def.end = "panic" ->
                    Returned([c1 EXCEPT !.reg = DropValues(@, popped.vals)],
                             PanicRes(1))
              [] def.end = "call" /\ def.g > Len(fs) ->    \* its cell is empty
                    Returned(c1, Res("Err", "ExternalError", <<>>, 8, 0))
              [] def.end = "give" ->    \* a clone of the value it holds
                    Returned([c1 EXCEPT !.reg = LuaRef_clone(@, def.up[1]).reg],
                             Ok(<<LuaRef_clone(c1.reg, def.up[1]).val>>))
              [] def.end = "call" ->
                    Held(Function_call(lua, popped.stack, c1, fs, hs,
                                       RefOf(HandleTo(hs, c.reg, def.g)),
                                       popped.vals, TRUE, TRUE))
        Enter(popped) ==
            Finish(Body(popped,
                        [c EXCEPT !.reg = popped.reg, !.borrowed = @ \cup {f},
                                  !.log = Append(@, Event("enter", f, def.end))]),
                   popped.stack)
    IN IF ~try_borrow_mut(c.borrowed, f)
       THEN recursive_callback(f, [c EXCEPT !.closes = Lua_drop(lua, @)])
       ELSE Enter(PopValues(lua, args, c.reg, nargs))

\* pcall_with_traceback: lua_pcall of the function under its nargs
\* arguments with the message handler installed beneath them and removed
\* afterwards
pcall_with_traceback(fs, hs, s, nargs, c) ==
    LET f == s[Len(s) - nargs]
        base == lua_pop(s, nargs + 1)
        Handled(ran) ==
            IF ran.ret = LUA_OK
            THEN [stack |-> base \o ran.vals, ret |-> LUA_OK, c |-> ran.c]
            ELSE IF ran.ret < 0 THEN [stack |-> base, ret |-> ran.ret, c |-> ran.c]
            ELSE [stack |-> Append(base, message_handler(ran.vals[1])),
                  ret |-> LUA_ERRRUN, c |-> ran.c]
    IN Handled(IF f.ty = "function" THEN lua_call(fs, hs, f.v, TopN(s, nargs), c)
               ELSE Ran(LUA_ERRRUN,
                        <<MsgSlot("attempt to call a non-function")>>, c))

\* Function::call, the closure handed to stack_err_guard (lua.rs 204-223)
Function_call_body(lua, s, c, fs, hs, self, args, aconv, rconv) ==
    LET nargs == Len(args)
        stack_start == lua_gettop(s)
        \* a failed R::from_lua_multi drops the results it was given
        Results(pc, popped) ==
            [stack |-> popped.stack,
             c |-> [pc.c EXCEPT !.reg = IF rconv THEN popped.reg
                                        ELSE DropValues(popped.reg, popped.vals)],
             res |-> IF rconv THEN Ok(popped.vals)
                     ELSE Err("FromLuaConversionError")]
        Checked(pc, he) ==
            IF he.res.kind # "Ok"
            THEN [stack |-> he.stack, c |-> pc.c, res |-> he.res]
            ELSE Results(pc, PopValues(lua, pc.stack, pc.c.reg,
                                       lua_gettop(pc.stack) - stack_start))
        Called(pc) ==
            IF pc.ret < 0 THEN [stack |-> pc.stack, c |-> pc.c, res |-> AbortRes]
            ELSE Checked(pc, handle_error(pc.stack, pc.ret))
        Pushed(pushed) ==
            IF pushed.abort THEN [stack |-> s, c |-> c, res |-> AbortRes]
            ELSE Called(pcall_with_traceback(fs, hs, pushed.stack, nargs,
                                             [c EXCEPT !.reg = pushed.reg]))
        Pinned(s1) ==
            IF s1.abort THEN [stack |-> s, c |-> c, res |-> AbortRes]
            ELSE Pushed(PushValues(lua, s1.stack, c.reg, args))
    IN IF ~aconv
       THEN [stack |-> s, c |-> c, res |-> Err("ToLuaConversionError")]
       ELSE Pinned(push_ref(lua, s, c.reg, self))

\* Function::call (lua.rs 200-226)
Function_call(lua, s, c, fs, hs, self, args, aconv, rconv) ==
    stack_err_guard(s, 0,
        Function_call_body(lua, s, c, fs, hs, self, args, aconv, rconv))

\* Lua::create_function / create_callback_function (lua.rs 739-748,
\* 947-964): the boxed closure as userdata, its metatable looked up and set,
\* the C closure over it, pinned
create_callback_function(lua, s, r, fs, def) ==
    LET s1 == Append(s, Slot("userdata", "Callback", Len(fs) + 1))
        s2 == Append(s1, Slot("lightuserdata", "FUNCTION_METATABLE_REGISTRY_KEY", 0))
        s3 == Append(lua_pop(s2, 1), Slot("table", "function metatable", 0))
        s4 == lua_pop(s3, 1)                            \* lua_setmetatable
        s5 == Append(lua_pop(s4, 1), FnSlot(Len(fs) + 1))  \* lua_pushcclosure!(.., 1)
        Made(pinned) ==
            [stack |-> pinned.stack, reg |-> pinned.reg, fns |-> Append(fs, def),
             lref |-> pinned.lref, res |-> Ok(<<>>)]
    IN stack_guard(s, 0, Made(pop_ref(lua, s5, r)))

----------------------------------------------------------------------------
(* The other operations of Function and Lua.  A string slot is             *)
(* Slot("string", tag, v): the numeral of the integer v (tag "int"), of    *)
(* the float v / 2 (tag "float"), or the text tag (v = 0).  A float's      *)
(* payload counts halves, so that 3 is 1.5.  What a table holds is not     *)
(* tracked.                                                                *)

\* Function::bind (lua.rs 259-298); the closure made by lua_pushcclosure!
\* keeps the function, the count and the bound values as upvalues
Function_bind(lua, s, r, fs, self, args, aconv) ==
    LET nargs == Len(args)
        Failed(res) ==
            [stack |-> s, reg |-> r, fns |-> fs, lref |-> LuaRef("", 0),
             res |-> res]
        Made(f, count, up, pinned) ==
            [stack |-> pinned.stack, reg |-> pinned.reg,
             fns |-> Append(fs, BoundDef(f.v, count.v, up)),
             lref |-> pinned.lref, res |-> Ok(<<>>)]
        \* lua_pushcclosure!(.., nargs + 2) over the function, the count and
        \* the values
        Closed(st, rg) ==
            Made(st[Len(st) - nargs - 1], st[Len(st) - nargs], TopN(st, nargs),
                 pop_ref(lua, Append(lua_pop(st, nargs + 2), FnSlot(Len(fs) + 1)),
                         rg))
        Pushed(pushed) == Closed(pushed.stack, pushed.reg)
        Pinned(s1) ==
            IF s1.abort THEN Failed(AbortRes)
            ELSE Pushed(PushValues(lua, Append(s1.stack, IntSlot(nargs)), \* lua_pushinteger
                                   r, args))
    IN stack_err_guard(s, 0,
         IF ~aconv THEN Failed(Err("ToLuaConversionError"))
         ELSE Pinned(push_ref(lua, s, r, self)))

\* Lua::create_string (lua.rs 644-652); str is the string slot to make
create_string(lua, s, r, str) ==
    LET Made(pinned) ==
            [stack |-> pinned.stack, reg |-> pinned.reg, lref |-> pinned.lref,
             res |-> Ok(<<>>)]
    IN stack_guard(s, 0, Made(pop_ref(lua, Append(s, str), r))) \* lua_pushlstring

\* Lua::create_table (lua.rs 655-663)
create_table(lua, s, r, hp) ==
    LET Made(pinned) ==
            [stack |-> pinned.stack, reg |-> pinned.reg, lref |-> pinned.lref,
             heap |-> [hp EXCEPT !.n = @ + 1], res |-> Ok(<<>>)]
    IN stack_guard(s, 0,                                \* lua_newtable!
         Made(pop_ref(lua, Append(s, Slot("table", "", hp.n + 1)), r)))

\* the loop of lua.rs 677-681 over pairs whose conversions succeed
RECURSIVE rawset_all(_, _, _, _)
rawset_all(lua, s, r, cont) ==
    LET Set(v) == rawset_all(lua, lua_pop(v.stack, 2), v.reg, Tail(cont)) \* lua_rawset
        Value(k) == Set(push_value(lua, k.stack, k.reg, Head(cont)[2]))
    IN IF cont = <<>> THEN [stack |-> s, reg |-> r]
       ELSE Value(push_value(lua, s, r, Head(cont)[1]))

\* Lua::create_table_from (lua.rs 666-685): cont is the pairs that convert,
\* bad says whether a further pair follows whose key ("k") or value ("v")
\* fails to convert
create_table_from_m(lua, s, r, hp, cont, bad) ==
    LET Failed(st, rg) ==
            [stack |-> s, reg |-> rg, lref |-> LuaRef("", 0),
             heap |-> [hp EXCEPT !.n = @ + 1],
             res |-> Err("ToLuaConversionError")]
        Made(pinned) ==
            [stack |-> pinned.stack, reg |-> pinned.reg, lref |-> pinned.lref,
             heap |-> [hp EXCEPT !.n = @ + 1], res |-> Ok(<<>>)]
        KeyPushed(key) == Failed(key.stack, key.reg)
        Filled(set) ==
            CASE bad = "k" -> Failed(set.stack, set.reg)
              [] bad = "v" ->
                   KeyPushed(push_value(lua, set.stack, set.reg,
                                        IntVal(Len(cont) + 1)))
              [] OTHER -> Made(pop_ref(lua, set.stack, set.reg))
    IN stack_err_guard(s, 0,                            \* lua_newtable!
         Filled(rawset_all(lua, Append(s, Slot("table", "", hp.n + 1)), r, cont)))
create_table_from(lua, s, r, hp, cont, bad) ==
    LET Failed(st, rg) ==
            [stack |-> st, reg |-> rg, lref |-> LuaRef("", 0),
             heap |-> [hp EXCEPT !.n = @ + 1],
             res |-> Err("ToLuaConversionError")]
        Made(pinned) ==
            [stack |-> pinned.stack, reg |-> pinned.reg, lref |-> pinned.lref,
             heap |-> [hp EXCEPT !.n = @ + 1], res |-> Ok(<<>>)]
        KeyPushed(key) == Failed(key.stack, key.reg)
        Filled(set) ==
            CASE bad = "k" -> Failed(set.stack, set.reg)
              [] bad = "v" ->
                   KeyPushed(push_value(lua, set.stack, set.reg,
                                        IntVal(Len(cont) + 1)))
              [] OTHER -> Made(pop_ref(lua, set.stack, set.reg))
    IN stack_err_guard(s, 0,                            \* lua_newtable!
         Filled(rawset_all(lua, Append(s, Slot("table", "", hp.n + 1)), r, cont)))

\* the host types of the scenarios and what each one's add_methods
\* declares: how many regular methods (named "get") and whether an Index
\* metamethod; the add_methods of the last type panics
UserTypes ==
    <<[methods |-> 1, index |-> FALSE, panics |-> FALSE],
      [methods |-> 1, index |-> TRUE, panics |-> FALSE],
      [methods |-> 0, index |-> TRUE, panics |-> FALSE],
      [methods |-> 0, index |-> FALSE, panics |-> FALSE],
      [methods |-> 0, index |-> FALSE, panics |-> TRUE]>>

\* lua_rawset of a string key and a value x into a table whose entries
\* under string keys are keys
rawset_key_m(keys, name, x) == keys
rawset_key(keys, name, x) == {e \in keys : e[1] # name} \cup {<<name, x>>}

\* (*registered_userdata).get(&TypeId::of::<T>()) (lua.rs 1131-1133):
\* the registry id cached for the type, 0 for None
registered_get_m(hp, T) == 0
registered_get(hp, T) == hp.mt[T]

\* push_value(Value::Function(create_callback_function(m))): the function
\* is pinned, pushed, and unpinned when the Value is dropped
push_method_m(lua, s, r) ==
    LET Unpinned(pin) ==
            [stack |-> Append(s, Slot("function", "method", 0)),
             reg |-> pin.reg]
    IN Unpinned(pop_ref(lua, Append(s, Slot("function", "method", 0)), r))
push_method(lua, s, r) ==
    LET Unpinned(pin) ==
            [stack |-> Append(s, Slot("function", "method", 0)),
             reg |-> drop_ref(pin.reg, pin.lref)]
    IN Unpinned(pop_ref(lua, Append(s, Slot("function", "method", 0)), r))

\* lua_rawset(state, -3) of the "__index" key and the value above it into
\* the metatable: a metatable slot's tag names what its __index is
rawset_index(s, kind) ==
    [lua_pop(s, 2) EXCEPT ![Len(s) - 2] = Slot("table", kind, s[Len(s) - 2].v)]

\* Lua::userdata_metatable (lua.rs 1121-1220) for host type T: the registry
\* id cached for the type, or a new metatable (a table slot whose v is T)
\* with an __index table of the methods, the metamethods, __gc and
\* __metatable, pinned for good and entered in the cache; the heap keeps
\* the other keys set in the table.  A panic of T::add_methods unwinds
\* out of the function.
userdata_metatable(lua, s, r, hp, T) ==
    LET decl == UserTypes[T]
        has_methods == decl.methods > 0
        s1 == Append(s, Slot("lightuserdata", "LUA_USERDATA_REGISTRY_KEY", 0))
        s2 == Append(lua_pop(s1, 1), Slot("userdata", "HashMap", 0)) \* lua_gettable
        s3 == lua_pop(s2, 1)
        Cached(st, id) ==
            [stack |-> st, reg |-> r, heap |-> hp, id |-> id, hit |-> TRUE,
             res |-> Ok(<<>>)]
        Panicked(st) ==
            [stack |-> st, reg |-> r, heap |-> hp, id |-> 0, hit |-> FALSE,
             res |-> PanicRes(0)]
        Made(s8, ref, keys) ==
            [stack |-> lua_pop(s8, 1), reg |-> ref.reg,
             heap |-> [hp EXCEPT !.mt[T] = ref.id, !.built[T] = @ + 1,
                                 !.keys[T] = keys],
             id |-> ref.id, hit |-> FALSE, res |-> Ok(<<>>)]
        Ref(p, r1) == Made(p.stack, luaL_ref(r1, Top(p.stack)), p.keys)
        Gc(s6) ==                                       \* lua.rs 1209-1211
            [stack |-> lua_pop(Append(Append(s6, StrSlot(0)),
                                      Slot("function", "userdata_destructor", 0)),
                               2),
             keys |-> rawset_key({}, "__gc",
                                 Slot("function", "userdata_destructor", 0))]
        Protect(g) ==                                   \* lua.rs 1213-1215
            [stack |-> lua_pop(Append(Append(g.stack, StrSlot(0)),
                                      BoolSlot(FALSE)), 2),
             keys |-> rawset_key(g.keys, "__metatable", BoolSlot(FALSE))]
        Keys(b) == Ref(Protect(Gc(b.stack)), b.reg)     \* __gc, __metatable
        \* lua.rs 1163-1173: meta_index_impl closed over the methods table
        \* (read back from "__index") and the Index metamethod
        Shadowed(fn) ==
            [stack |-> rawset_index(Append(lua_pop(fn.stack, 2),
                                           Slot("function", "meta_index_impl", 0)),
                                    "meta_index_impl"),
             reg |-> fn.reg]
        \* lua.rs 1199-1204: the metamethod under its own name
        Plain(fn) == [stack |-> rawset_index(fn.stack, "Index"), reg |-> fn.reg]
        MetaMethods(b) ==
            IF ~decl.index THEN Keys(b)
            ELSE IF has_methods
            THEN Keys(Shadowed(push_method(lua,
                     Append(Append(b.stack, StrSlot(0)),
                            Slot("table", "methods", T)), b.reg)))
            ELSE Keys(Plain(push_method(lua, Append(b.stack, StrSlot(0)), b.reg)))
        \* lua.rs 1146-1160: "__index" is a table holding the methods
        Filled(fn) ==
            [stack |-> rawset_index(lua_pop(fn.stack, 2), "methods"),
             reg |-> fn.reg]
        Methods(s4) ==
            IF has_methods
            THEN MetaMethods(Filled(push_method(lua,
                     Append(Append(Append(s4, StrSlot(0)),
                                   Slot("table", "methods", T)), StrSlot(0)), r)))
            ELSE MetaMethods([stack |-> s4, reg |-> r])
        Lookup(id) ==
            IF id # 0 THEN Cached(s3, id)
            ELSE IF decl.panics THEN Panicked(s3)       \* T::add_methods
            ELSE Methods(Append(s3, Slot("table", "", T)))      \* lua_newtable!
    IN stack_guard(s, 0, Lookup(registered_get(hp, T)))

\* Lua::create_userdata (lua.rs 767-788) of a value of host type T; the
\* heap remembers the metatable lua_setmetatable gave the object and how
\* many times the value moved into the object has been dropped.  When
\* userdata_metatable unwinds, the object is on the stack with no metatable.
create_userdata(lua, s, r, hp, T) ==
    LET Made(mt, meta, pinned) ==
            [stack |-> pinned.stack, reg |-> pinned.reg, lref |-> pinned.lref,
             heap |-> [mt.heap EXCEPT !.n = @ + 1,
                                      !.meta = @ @@ ((mt.heap.n + 1) :> meta),
                                      !.drops = @ @@ ((mt.heap.n + 1) :> 0)],
             id |-> mt.id, hit |-> mt.hit,
             res |-> IF mt.res.kind = "Abort" THEN AbortRes ELSE Ok(<<>>)]
        Unwound(mt) ==
            [stack |-> mt.stack, reg |-> mt.reg, lref |-> LuaRef("", 0),
             heap |-> [mt.heap EXCEPT !.n = @ + 1,
                                      !.drops = @ @@ ((mt.heap.n + 1) :> 0)],
             id |-> mt.id, hit |-> mt.hit, res |-> mt.res]
        Meta(mt) ==                 \* lua_rawgeti of the id, lua_setmetatable
            IF mt.res.kind = "Panic" THEN Unwound(mt)
            ELSE Made(mt, lua_rawgeti(mt.reg, mt.id),
                      pop_ref(lua, lua_pop(Append(mt.stack,
                                                  lua_rawgeti(mt.reg, mt.id)), 1),
                              mt.reg))
    IN stack_guard(s, 0,                                \* push_userdata
         Meta(userdata_metatable(lua, Append(s, Slot("userdata", "UserData",
                                                     hp.n + 1)),
                                 r, hp, T)))

\* lua_insert(L, -k): the top slot moves down to be the k-th from the top
lua_insert(s, k) ==
    SubSeq(s, 1, Len(s) - k) \o <<Top(s)>> \o SubSeq(s, Len(s) - k + 1, Len(s) - 1)

\* lua_gettable on the methods table of type T (no metatable of its own)
methods_get(T, key) ==
    IF UserTypes[T].methods > 0 /\ key = Slot("string", "get", 0)
    THEN Slot("function", "method", 0)
    ELSE NilSlot

\* lua_call of the type's Index metamethod with the nargs values above it:
\* what it returns is marked as its own, and the call is noted
call_index(s, nargs) ==
    [stack |-> Append(lua_pop(s, nargs + 1), Slot("string", "from Index", 0)),
     called |-> <<TopN(s, nargs)>>]

\* meta_index_impl (lua.rs 1102-1119), entered with (userdata, key) on the
\* stack; upvalue 1 is the methods table of T, upvalue 2 the Index
\* metamethod.  It returns the top slot.
meta_index_impl(T, s) ==
    LET Found(s2) ==                \* lua_pushvalue(-1), lua_gettable(upvalue 1)
            IF Top(s2).ty = "nil"                       \* lua_isnil!(state, -1)
            THEN [stack |-> lua_pop(lua_insert(s2, 3), 2), called |-> <<>>]
            ELSE call_index(lua_insert(Append(lua_pop(s2, 1),
                                              Slot("function", "Index", 0)), 3),
                            2)
    IN Found(Append(s, methods_get(T, Top(s))))

\* the engine indexing a userdata whose metatable is mt with key: "__index"
\* is a table (raw lookup), a function (called with the userdata and the
\* key), or absent (an error)
index_userdata(mt, ud, key) ==
    CASE mt.tag = "methods" ->
           [ret |-> LUA_OK, stack |-> <<methods_get(mt.v, key)>>, called |-> <<>>]
      [] mt.tag = "Index" ->
           [ret |-> LUA_OK] @@ call_index(<<Slot("function", "Index", 0), ud, key>>, 2)
      [] mt.tag = "meta_index_impl" ->
           [ret |-> LUA_OK] @@ meta_index_impl(mt.v, <<ud, key>>)
      [] OTHER ->
           [ret |-> LUA_ERRRUN, called |-> <<>>,
            stack |-> <<MsgSlot("attempt to index a userdata value")>>]

\* Lua::globals (lua.rs 791-799)
globals(lua, s, r) ==
    LET Made(pinned) ==
            [stack |-> pinned.stack, reg |-> pinned.reg, lref |-> pinned.lref,
             res |-> Ok(<<>>)]
    IN stack_guard(s, 0,
         Made(pop_ref(lua, Append(s, lua_rawgeti(r, LUA_RIDX_GLOBALS)), r)))

\* lua_tostring: a number slot is converted in place; null for anything
\* that is neither a string nor a number
lua_tostring(x) ==
    IF x.ty = "string" THEN [null |-> FALSE, slot |-> x]
    ELSE IF x.ty = "number" THEN [null |-> FALSE, slot |-> Slot("string", x.tag, x.v)]
    ELSE [null |-> TRUE, slot |-> x]

\* lua_tointegerx: integers, floats with an integral value, and numerals
\* of either
lua_tointegerx(x) ==
    IF x.ty \in {"number", "string"} /\ x.tag = "int" THEN [isint |-> 1, i |-> x.v]
    ELSE IF x.ty \in {"number", "string"} /\ x.tag = "float" /\ x.v % 2 = 0
    THEN [isint |-> 1, i |-> x.v \div 2]
    ELSE [isint |-> 0, i |-> 0]

\* lua_tonumberx: numbers and numerals, as a float (in halves)
lua_tonumberx(x) ==
    IF x.ty \in {"number", "string"} /\ x.tag = "int" THEN [isnum |-> 1, n |-> 2 * x.v]
    ELSE IF x.ty \in {"number", "string"} /\ x.tag = "float"
    THEN [isnum |-> 1, n |-> x.v]
    ELSE [isnum |-> 0, n |-> 0]

\* Lua::coerce_string (lua.rs 804-825)
coerce_string(lua, s, r, v) ==
    LET Pinned(pinned) ==
            [stack |-> pinned.stack, reg |-> pinned.reg, from |-> "",
             res |-> Ok(<<Val("String", 0, pinned.lref.rid, pinned.lref.lua)>>)]
        Converted(p, conv) ==
            IF conv.null
            THEN [stack |-> lua_pop(p.stack, 1), reg |-> p.reg,
                  from |-> type_name(v),             \* let ty = v.type_name()
                  res |-> Err("FromLuaConversionError")]
            ELSE Pinned(pop_ref(lua, [p.stack EXCEPT ![Len(p.stack)] = conv.slot],
                                p.reg))
        Pushed(p) == Converted(p, lua_tostring(Top(p.stack)))
    IN IF v.var = "String"
       THEN [stack |-> s, reg |-> r, from |-> "", res |-> Ok(<<v>>)]
       ELSE stack_guard(s, 0, Pushed(push_value(lua, s, r, v)))

\* Lua::coerce_integer (lua.rs 831-854)
coerce_integer_m(lua, s, r, v) ==
    LET Converted(p, conv) ==
            [stack |-> p.stack, reg |-> p.reg,
             from |-> IF conv.isint = 0 THEN type_name(v) ELSE "",
             res |-> IF conv.isint = 0 THEN Err("FromLuaConversionError")
                     ELSE Ok(<<IntVal(conv.i)>>)]
        Pushed(p) == Converted(p, lua_tointegerx(Top(p.stack)))
    IN IF v.var = "Integer"
       THEN [stack |-> s, reg |-> r, from |-> "", res |-> Ok(<<v>>)]
       ELSE stack_guard(s, 0, Pushed(push_value(lua, s, r, v)))
coerce_integer(lua, s, r, v) ==
    LET Converted(p, conv) ==
            [stack |-> lua_pop(p.stack, 1), reg |-> p.reg,
             from |-> IF conv.isint = 0 THEN type_name(v) ELSE "",
             res |-> IF conv.isint = 0 THEN Err("FromLuaConversionError")
                     ELSE Ok(<<IntVal(conv.i)>>)]
        Pushed(p) == Converted(p, lua_tointegerx(Top(p.stack)))
    IN IF v.var = "Integer"
       THEN [stack |-> s, reg |-> r, from |-> "", res |-> Ok(<<v>>)]
       ELSE stack_guard(s, 0, Pushed(push_value(lua, s, r, v)))

\* Lua::coerce_number (lua.rs 860-883)
coerce_number(lua, s, r, v) ==
    LET Converted(p, conv) ==
            [stack |-> lua_pop(p.stack, 1), reg |-> p.reg,
             from |-> IF conv.isnum = 0 THEN type_name(v) ELSE "",
             res |-> IF conv.isnum = 0 THEN Err("FromLuaConversionError")
                     ELSE Ok(<<Val("Number", conv.n, 0, "")>>)]
        Pushed(p) == Converted(p, lua_tonumberx(Top(p.stack)))
    IN IF v.var = "Number"
       THEN [stack |-> s, reg |-> r, from |-> "", res |-> Ok(<<v>>)]
       ELSE stack_guard(s, 0, Pushed(push_value(lua, s, r, v)))

----------------------------------------------------------------------------
(* The state after Lua::new, and the record of the latest operation.       *)

\* the libraries Lua::new opens with luaL_requiref (lua.rs 484-492)
OpenedLibs ==
    {"_G", "coroutine", "table", "io", "os", "string", "utf8", "math", "package"}

\* what luaopen_base binds the three globals to
luaopen_base ==
    [pcall |-> "luaB_pcall", xpcall |-> "luaB_xpcall",
     setmetatable |-> "luaB_setmetatable"]

\* Lua::new (lua.rs 481-550): the libraries loaded, the entries of the
\* metatable shared by host closures, and the bindings of pcall, xpcall
\* and setmetatable in the globals table after the overrides
Lua_new_m ==
    [loaded |-> OpenedLibs \cup {"debug"}, G |-> luaopen_base, fnmeta |-> {}]
Lua_new ==
    [loaded |-> OpenedLibs,
     fnmeta |->                                     \* lua.rs 513-530
        rawset_key(rawset_key({}, "__gc",
                              Slot("function", "userdata_destructor", 0)),
                   "__metatable", BoolSlot(FALSE)),
     G |-> [luaopen_base EXCEPT !.pcall = "safe_pcall", !.xpcall = "safe_xpcall",
                                !.setmetatable = "safe_setmetatable"]]

\* the addresses libc can give out (0 is the null pointer) and the sizes
\* the engine asks for
MaxBlocks == 3
MaxSize == 2
Addrs == 1..MaxBlocks

\* libc::free(ptr): the block is gone; free(NULL) does nothing
free(blocks, ptr) == [a \in DOMAIN blocks \ {ptr} |-> blocks[a]]

\* libc::realloc(ptr, nsize), nsize > 0: the outcomes it can have.  It
\* fails, returning null and leaving the block alone, or the block is
\* resized in place or moved to an address not in use.
realloc(blocks, ptr, nsize) ==
    {[p |-> 0, blocks |-> blocks]} \cup
    {[p |-> q, blocks |-> [a \in (DOMAIN blocks \ {ptr}) \cup {q} |->
                            IF a = q THEN nsize ELSE blocks[a]]] :
       q \in (Addrs \ DOMAIN blocks) \cup ({ptr} \ {0})}

\* the allocator Lua::new gives lua_newstate (lua.rs 456-476), with got
\* the outcome of realloc: the pointer returned to the engine, the blocks
\* in use, and whether the process is aborted
allocator_m(blocks, ptr, nsize, got) ==
    IF nsize = 0
    THEN [p |-> 0, blocks |-> free(blocks, ptr), abort |-> FALSE]
    ELSE [p |-> got.p, blocks |-> got.blocks, abort |-> FALSE]
allocator(blocks, ptr, nsize, got) ==
    IF nsize = 0
    THEN [p |-> 0, blocks |-> free(blocks, ptr), abort |-> FALSE]
    ELSE IF got.p = 0
    THEN [p |-> 0, blocks |-> blocks, abort |-> TRUE]   \* process::abort()
    ELSE [p |-> got.p, blocks |-> got.blocks, abort |-> FALSE]

\* the engine finalizing object o: the __gc of its metatable, if it has
\* one, is userdata_destructor, which drops the host value in the object
finalize(hp, o) ==
    IF o \in DOMAIN hp.meta
       /\ <<"__gc", Slot("function", "userdata_destructor", 0)>>
             \in hp.keys[hp.meta[o].v]
    THEN [hp EXCEPT !.drops[o] = @ + 1]
    ELSE hp

\* lua_close (lua.rs 441-449): every object not yet collected is finalized
\* and freed
RECURSIVE lua_close(_, _)
lua_close(hp, o) ==
    IF o = 0 THEN [hp EXCEPT !.dead = 1..hp.n]
    ELSE lua_close(IF o \in hp.dead THEN hp ELSE finalize(hp, o), o - 1)

\* Lua::load_debug (lua.rs 560-568): luaL_requiref of luaopen_debug
load_debug(hp) == [hp EXCEPT !.loaded = @ \cup {"debug"}]

NoLast ==
    [op |-> "new", res |-> Ok(<<>>), status |-> "", t |-> 0, args |-> <<>>,
     pre |-> NewThread, before |-> 0, after |-> 0, aconv |-> TRUE,
     rconv |-> TRUE, log |-> <<>>, objs |-> <<>>, frame |-> 0 - 1,
     id |-> 0, seen |-> 0 - 1, from |-> ""]

Init ==
    /\ stack = <<>>
    /\ reg = InitReg
    /\ fns = <<>>
    /\ threads = <<>>
    /\ handles = {}
    /\ borrowed = {}
    /\ closes = 0
    /\ alive = TRUE
    /\ heap = [n |-> 0, dead |-> {}, mt |-> [T \in DOMAIN UserTypes |-> 0],
               built |-> [T \in DOMAIN UserTypes |-> 0], meta |-> <<>>,
               keys |-> [T \in DOMAIN UserTypes |-> {}], drops |-> <<>>,
               blocks |-> <<>>, fnmeta |-> Lua_new.fnmeta,
               loaded |-> Lua_new.loaded, G |-> Lua_new.G]
    /\ last = NoLast

Running == alive /\ last.res.kind # "Abort"

\* the argument lists the host passes: (), (1), (1, 2), ...
ArgLists == {[i \in 1..n |-> IntVal(i)] : n \in 0..MaxArgs}

\* the bodies a loaded chunk can have in the coroutine scenario
CoBodies ==
    {FnDef("lua", n, "return", 0, 0) : n \in 0..MaxYields} \cup
    {FnDef("lua", n, "error", r, 0) : n \in 0..MaxYields, r \in {0, 1}}

\* the function a thread runs: on its stack before the first resume
BodyOf(th) == IF th.pc = 0 THEN fns[th.stack[1].v] ELSE fns[th.fn]

----------------------------------------------------------------------------
(* Coroutine scenario: load a chunk, wrap it in a thread, resume it and    *)
(* ask its status.                                                         *)

Load(def, compiles) ==
    /\ Running
    /\ LET Done(out) ==
               /\ stack' = out.stack
               /\ reg' = out.reg
               /\ fns' = out.fns
               /\ handles' = IF out.res.kind = "Ok"
                             THEN handles \cup {Handle("Function", out.lref, Len(out.fns))}
                             ELSE handles
               /\ last' = [NoLast EXCEPT !.op = "load", !.res = out.res,
                                         !.before = Len(stack),
                                         !.after = Len(out.stack),
                                         !.seen = out.seen]
       IN Done(load(TopLua, stack, reg, fns, def, compiles))
    /\ UNCHANGED <<threads, borrowed, closes, alive, heap>>

CreateThread(h) ==
    /\ Running
    /\ h.kind = "Function"
    /\ Len(threads) < MaxThreads
    /\ LET Done(out) ==
               /\ stack' = out.stack
               /\ reg' = out.reg
               /\ threads' = out.threads
               /\ handles' = (handles \ {h}) \cup
                               {Handle("Thread", out.lref, Len(out.threads))}
               /\ last' = [NoLast EXCEPT !.op = "create_thread", !.res = out.res,
                                         !.t = Len(out.threads),
                                         !.before = Len(stack),
                                         !.after = Len(out.stack)]
       IN Done(create_thread(TopLua, stack, reg, threads, RefOf(h)))
    /\ UNCHANGED <<fns, borrowed, closes, alive, heap>>

Resume(h, args, aconv, rconv) ==
    /\ Running
    /\ h.kind = "Thread"
    /\ LET t == ObjOf(reg, h)
           Done(out) ==
               /\ stack' = out.stack
               /\ reg' = out.reg
               /\ threads' = out.threads
               /\ last' = [NoLast EXCEPT !.op = "resume", !.res = out.res, !.t = t,
                                         !.args = args, !.pre = threads[t],
                                         !.before = Len(stack),
                                         !.after = Len(out.stack),
                                         !.aconv = aconv, !.rconv = rconv,
                                         !.seen = out.seen]
       IN Done(Thread_resume(TopLua, stack, reg, threads, fns, RefOf(h), args,
               aconv, rconv))
    /\ UNCHANGED <<fns, handles, borrowed, closes, alive, heap>>

Status(h) ==
    /\ Running
    /\ h.kind = "Thread"
    /\ LET t == ObjOf(reg, h)
           Done(out) ==
               /\ stack' = out.stack
               /\ last' = [NoLast EXCEPT !.op = "status", !.res = out.res, !.t = t,
                                         !.status = out.status, !.pre = threads[t],
                                         !.before = Len(stack),
                                         !.after = Len(out.stack)]
       IN Done(Thread_status(TopLua, stack, reg, threads, RefOf(h)))
    /\ UNCHANGED <<reg, fns, threads, handles, borrowed, closes, alive, heap>>

\* a resume during which the host is asked the status of the coroutine that
\* is running, k values being in the running frame; last.status is the
\* answer and last.frame is k
ResumeAsking(h, args, k) ==
    /\ Running
    /\ h.kind = "Thread"
    /\ threads[ObjOf(reg, h)].phase \in {"fresh", "suspended"}
    /\ LET t == ObjOf(reg, h)
           Asked(out, seen) ==
               /\ stack' = out.stack
               /\ reg' = out.reg
               /\ threads' = out.threads
               /\ last' = [NoLast EXCEPT !.op = "resume", !.res = out.res, !.t = t,
                                         !.args = args, !.pre = threads[t],
                                         !.before = Len(stack),
                                         !.after = Len(out.stack),
                                         !.status = seen.status, !.frame = k]
       IN Asked(Thread_resume(TopLua, stack, reg, threads, fns, RefOf(h), args,
                              TRUE, TRUE),
                Thread_status(TopLua, stack, reg,
                              [threads EXCEPT ![t] = running_view(@, k)],
                              RefOf(h)))
    /\ UNCHANGED <<fns, handles, borrowed, closes, alive, heap>>

NextThread ==
    \/ \E def \in CoBodies, compiles \in BOOLEAN :
          /\ Len(fns) < MaxThreads
          /\ \A h \in handles : h.kind # "Function"
          /\ Load(def, compiles)
    \/ \E h \in handles : CreateThread(h)
    \/ \E h \in handles, args \in ArgLists : Resume(h, args, TRUE, TRUE)
    \/ \E h \in handles : Status(h)
    \/ \E h \in handles, k \in 0..MaxStack : ResumeAsking(h, <<>>, k)

SpecThread == Init /\ [][NextThread]_vars

----------------------------------------------------------------------------
(* Call scenario: load script functions, register host closures, call      *)
(* them, drop the Lua.  Function number id may refer to the function       *)
(* created just before it; a host closure may also hold a handle to itself *)
(* or to the function created next (its cell is empty until then).         *)

ScriptBodies(id) ==
    {FnDef("lua", 0, e, 0, 0) : e \in {"return", "error"}} \cup
    {FnDef("lua", 0, e, 0, id - 1) :
        e \in IF id > 1 THEN {"call", "pcall", "coresume"} ELSE {}}

CallbackBodies(id) ==
    {FnDef("callback", 0, e, 0, 0) : e \in {"ok", "err", "panic"}} \cup
    {FnDef("callback", 0, "call", 0, g) :
        g \in {id - 1, id, id + 1} \cap 1..MaxFns}

CreateFunction(def) ==
    /\ Running
    /\ LET Done(out) ==
               /\ stack' = out.stack
               /\ reg' = out.reg
               /\ fns' = out.fns
               /\ handles' = handles \cup {Handle("Function", out.lref, Len(out.fns))}
               /\ last' = [NoLast EXCEPT !.op = "create_function", !.res = out.res,
                                         !.before = Len(stack),
                                         !.after = Len(out.stack)]
       IN Done(create_callback_function(TopLua, stack, reg, fns, def))
    /\ UNCHANGED <<threads, borrowed, closes, alive, heap>>

Call(h, args, aconv, rconv) ==
    /\ Running
    /\ h.kind = "Function"
    /\ LET Dropped(out, vals) ==
               /\ stack' = out.stack
               /\ reg' = DropValues(out.c.reg, vals)  \* the host drops the results
               /\ borrowed' = out.c.borrowed
               /\ closes' = out.c.closes
               /\ last' = [NoLast EXCEPT !.op = "call", !.res = out.res,
                                         !.t = ObjOf(reg, h), !.args = args,
                                         !.before = Len(stack),
                                         !.after = Len(out.stack),
                                         !.aconv = aconv, !.rconv = rconv,
                                         !.seen = out.seen,
                                         !.log = out.c.log,
                                         !.objs = [i \in DOMAIN vals |->
                                                     lua_rawgeti(out.c.reg,
                                                                 vals[i].rid)]]
           Done(out) == Dropped(out, out.res.vals)
       IN Done(Function_call(TopLua, stack, Ctx(reg, borrowed, closes, <<>>),
                             fns, handles, RefOf(h), args, aconv, rconv))
    /\ UNCHANGED <<fns, threads, handles, alive, heap>>

\* the owning Lua goes out of scope (Drop for Lua, lua.rs 441-449)
DropLua ==
    /\ Running
    /\ alive' = FALSE
    /\ closes' = Lua_drop(TopLua, closes)
    /\ heap' = IF ~TopLua.ephemeral THEN lua_close(heap, heap.n) ELSE heap
    /\ last' = [last EXCEPT !.op = "drop"]
    /\ UNCHANGED <<stack, reg, fns, threads, handles, borrowed>>

NextCall ==
    \/ \E def \in ScriptBodies(Len(fns) + 1) : Len(fns) < MaxFns /\ Load(def, TRUE)
    \/ \E def \in CallbackBodies(Len(fns) + 1) :
          Len(fns) < MaxFns /\ CreateFunction(def)
    \/ \E h \in handles, args \in {<<>>, <<IntVal(1)>>} : Call(h, args, TRUE, TRUE)
    \/ DropLua

SpecCall == Init /\ [][NextCall]_vars

----------------------------------------------------------------------------
(* Operations scenario: every host-facing operation.  A Value passed to a  *)
(* coercion is a scalar or one of the handles, which the call consumes.    *)

ValOf(h) == Val(h.kind, 0, h.rid, h.lua)

Scalars == {NilVal, IntVal(1), Val("Number", 3, 0, "")}

\* the strings the host makes: a text, an integer numeral, a float numeral
Strings == {Slot("string", "hello", 0), Slot("string", "int", 1),
            Slot("string", "float", 3)}

StackScripts ==
    {FnDef("lua", 0, "return", 0, 0), FnDef("lua", 1, "return", 0, 0),
     FnDef("lua", 0, "error", 1, 0)}

StackCallbacks == {FnDef("callback", 0, e, 0, 0) : e \in {"ok", "err"}}

\* a new object is made when the host holds no handle; bind adds handles,
\* and a function is made a coroutine when it is the only handle held
Room == handles = {}

\* the record of an operation that returns no values to look at
Did(op, out) ==
    [NoLast EXCEPT !.op = op, !.res = out.res, !.before = Len(stack),
                   !.after = Len(out.stack)]

Bind(h, args, aconv) ==
    /\ Running
    /\ h.kind = "Function"
    /\ LET Done(out) ==
               /\ stack' = out.stack
               /\ reg' = out.reg
               /\ fns' = out.fns
               /\ handles' = IF out.res.kind = "Ok"
                             THEN handles \cup {Handle("Function", out.lref, Len(out.fns))}
                             ELSE handles
               /\ last' = [Did("bind", out) EXCEPT !.args = args, !.aconv = aconv,
                                                    !.seen = out.seen]
       IN Done(Function_bind(TopLua, stack, reg, fns, RefOf(h), args, aconv))
    /\ UNCHANGED <<threads, borrowed, closes, alive, heap>>

CreateString(str) ==
    /\ Running
    /\ LET Done(out) ==
               /\ stack' = out.stack
               /\ reg' = out.reg
               /\ handles' = handles \cup {Handle("String", out.lref, 0)}
               /\ last' = Did("create_string", out)
       IN Done(create_string(TopLua, stack, reg, str))
    /\ UNCHANGED <<fns, threads, borrowed, closes, alive, heap>>

CreateTable ==
    /\ Running
    /\ LET Done(out) ==
               /\ stack' = out.stack
               /\ reg' = out.reg
               /\ heap' = out.heap
               /\ handles' = handles \cup {Handle("Table", out.lref, out.heap.n)}
               /\ last' = Did("create_table", out)
       IN Done(create_table(TopLua, stack, reg, heap))
    /\ UNCHANGED <<fns, threads, borrowed, closes, alive>>

CreateTableFrom(cont, bad) ==
    /\ Running
    /\ LET Done(out) ==
               /\ stack' = out.stack
               /\ reg' = out.reg
               /\ heap' = out.heap
               /\ handles' = IF out.res.kind = "Ok"
                             THEN handles \cup {Handle("Table", out.lref, out.heap.n)}
                             ELSE handles
               /\ last' = [Did("create_table_from", out) EXCEPT
                             !.status = bad, !.seen = out.seen]
       IN Done(create_table_from(TopLua, stack, reg, heap, cont, bad))
    /\ UNCHANGED <<fns, threads, borrowed, closes, alive>>

CreateUserdata(T) ==
    /\ Running
    /\ LET Done(out) ==
               /\ stack' = out.stack
               /\ reg' = out.reg
               /\ heap' = out.heap
               /\ handles' = IF out.res.kind = "Ok"
                             THEN handles \cup {Handle("UserData", out.lref,
                                                       out.heap.n)}
                             ELSE handles
               /\ last' = [Did("create_userdata", out) EXCEPT
                             !.t = T, !.id = out.id,
                             !.status = IF out.hit THEN "cached"
                                        ELSE IF out.id = 0 THEN "unwound"
                                        ELSE "built"]
       IN Done(create_userdata(TopLua, stack, reg, heap, T))
    /\ UNCHANGED <<fns, threads, borrowed, closes, alive>>

Globals ==
    /\ Running
    /\ LET Done(out) ==
               /\ stack' = out.stack
               /\ reg' = out.reg
               /\ handles' = handles \cup {Handle("Table", out.lref, 0)}
               /\ last' = Did("globals", out)
       IN Done(globals(TopLua, stack, reg))
    /\ UNCHANGED <<fns, threads, borrowed, closes, alive, heap>>

\* the handles left to the host after a coercion of v that returned res
Kept(v, res) ==
    {h \in handles : ValOf(h) # v} \cup
    {Handle("String", LuaRef(res.vals[i].lua, res.vals[i].rid), 0) :
        i \in {j \in DOMAIN res.vals : res.vals[j].var = "String"}}

CoerceString(v) ==
    /\ Running
    /\ LET Done(out) ==
               /\ stack' = out.stack
               /\ reg' = out.reg
               /\ handles' = Kept(v, out.res)
               /\ last' = [Did("coerce_string", out) EXCEPT
                             !.status = v.var, !.args = <<v>>, !.from = out.from]
       IN Done(coerce_string(TopLua, stack, reg, v))
    /\ UNCHANGED <<fns, threads, borrowed, closes, alive, heap>>

CoerceInteger(v) ==
    /\ Running
    /\ LET Done(out) ==
               /\ stack' = out.stack
               /\ reg' = out.reg
               /\ handles' = Kept(v, out.res)
               /\ last' = [Did("coerce_integer", out) EXCEPT
                             !.status = v.var, !.args = <<v>>, !.from = out.from]
       IN Done(coerce_integer(TopLua, stack, reg, v))
    /\ UNCHANGED <<fns, threads, borrowed, closes, alive, heap>>

CoerceNumber(v) ==
    /\ Running
    /\ LET Done(out) ==
               /\ stack' = out.stack
               /\ reg' = out.reg
               /\ handles' = Kept(v, out.res)
               /\ last' = [Did("coerce_number", out) EXCEPT
                             !.status = v.var, !.args = <<v>>, !.from = out.from]
       IN Done(coerce_number(TopLua, stack, reg, v))
    /\ UNCHANGED <<fns, threads, borrowed, closes, alive, heap>>

\* the pairs handed to create_table_from: (1, 1), (2, 2), ...
Pairs == {[i \in 1..n |-> <<IntVal(i), IntVal(i)>>] : n \in 0..MaxArgs}

\* coercions are tried while the host holds no handle but to strings
OnlyStrings == \A h \in handles : h.kind = "String"

Inputs == Scalars \cup {ValOf(h) : h \in {x \in handles : x.kind = "String"}}

NextStack ==
    \/ \E def \in StackScripts, compiles \in BOOLEAN :
          Room /\ Len(fns) < MaxFns /\ Load(def, compiles)
    \/ \E def \in StackCallbacks : Room /\ Len(fns) < MaxFns /\ CreateFunction(def)
    \/ \E h \in handles, aconv \in BOOLEAN :
          Len(fns) < MaxFns /\ Bind(h, <<IntVal(1)>>, aconv)
    \/ \E h \in handles, aconv \in BOOLEAN, rconv \in BOOLEAN :
          (aconv \/ rconv) /\ Call(h, <<IntVal(1)>>, aconv, rconv)
    \/ \E h \in handles :
          /\ handles = {h} /\ h.kind = "Function" /\ fns[h.obj].k = "lua"
          /\ Len(threads) < MaxThreads
          /\ CreateThread(h)
    \/ \E h \in handles, aconv \in BOOLEAN, rconv \in BOOLEAN :
          (aconv \/ rconv) /\ Resume(h, <<IntVal(1)>>, aconv, rconv)
    \/ \E h \in handles : Status(h)
    \/ \E str \in Strings : Room /\ CreateString(str)
    \/ Room /\ heap.n < MaxObjects /\ CreateTable
    \/ \E cont \in Pairs, bad \in {"", "k", "v"} :
          Room /\ heap.n < MaxObjects /\ CreateTableFrom(cont, bad)
    \/ \E T \in DOMAIN UserTypes :
          Room /\ heap.n < MaxObjects /\ CreateUserdata(T)
    \/ Room /\ Globals
    \/ \E v \in Inputs : (Room \/ IsRefVal(v)) /\ CoerceString(v)
    \/ \E v \in Inputs : OnlyStrings /\ CoerceInteger(v)
    \/ \E v \in Inputs : OnlyStrings /\ CoerceNumber(v)

SpecStack == Init /\ [][NextStack]_vars

----------------------------------------------------------------------------
(* Stack claims. *)

HostOps ==
    {"call", "bind", "resume", "status", "load", "create_string",
     "create_table", "create_table_from", "create_function", "create_thread",
     "create_userdata", "globals", "coerce_string", "coerce_integer",
     "coerce_number"}

\* C1: when an operation returns Ok or Err the stack is as deep as it was
\* when the operation started, and no Stack Guard trips on an operation
\* that returns: a guard trips only where the work unwound with a panic of
\* the host type's own code.
C1_StackBalanced ==
    last.op \in HostOps =>
        /\ last.res.kind = "Abort" => last.status = "unwound"
        /\ last.res.kind \in {"Ok", "Err"} => last.after = last.before

\* C1 witness: create_table_from fails converting a value, with the new
\* table and the key on the stack, and returns Err at the depth it started
C1_Witness ==
    /\ last.op = "create_table_from"
    /\ last.status = "v"
    /\ last.res = Err("ToLuaConversionError")
    /\ last.after = last.before

----------------------------------------------------------------------------
(* Registry scenario: the crate-internal steps from which the operations   *)
(* on tables and userdata are built.  A new table is pushed, the top slot  *)
(* is pinned (pop_ref) or popped, a handle's object is pushed (push_ref),  *)
(* a handle is released, the engine collects an object nothing refers to,  *)
(* and the host comes to hold a handle minted by another Lua instance,     *)
(* whose registry ids mean nothing here.                                   *)

\* the objects the engine can reach: on the stack or pinned in the registry
Reachable(s, r) ==
    {s[i].v : i \in {j \in DOMAIN s : s[j].ty = "table"}} \cup
    {r.arr[i].v : i \in {j \in DOMAIN r.arr : j > LUA_RIDX_GLOBALS /\ r.arr[j].ty = "table"}}

\* the userdata objects the engine can reach
ReachableUserdata(s, r) ==
    {s[i].v : i \in {j \in DOMAIN s : s[j].ty = "userdata" /\ s[j].tag = "UserData"}} \cup
    {r.arr[i].v : i \in {j \in DOMAIN r.arr :
                            r.arr[j].ty = "userdata" /\ r.arr[j].tag = "UserData"}}

NewTable ==
    /\ Running
    /\ Len(stack) < MaxStack
    /\ heap.n < MaxObjects
    /\ stack' = Append(stack, Slot("table", "", heap.n + 1))      \* lua_newtable!
    /\ heap' = [heap EXCEPT !.n = @ + 1]
    /\ last' = [NoLast EXCEPT !.op = "newtable", !.before = Len(stack),
                              !.after = Len(stack) + 1]
    /\ UNCHANGED <<reg, fns, threads, handles, borrowed, closes, alive>>

\* (history: from tells that luaL_ref took the id from the free list, and
\* the pushes that follow a pin keep what it told)
PopRef ==
    /\ Running
    /\ stack # <<>>
    /\ Cardinality(handles) < MaxHandles
    /\ LET Done(out) ==
               /\ stack' = out.stack
               /\ reg' = out.reg
               /\ handles' = handles \cup {Handle("Table", out.lref, Top(stack).v)}
               /\ last' = [NoLast EXCEPT !.op = "pop_ref", !.t = out.lref.rid,
                                         !.from = IF reg.free # <<>>
                                                  THEN "reused" ELSE "",
                                         !.before = Len(stack),
                                         !.after = Len(out.stack)]
       IN Done(pop_ref(TopLua, stack, reg))
    /\ UNCHANGED <<fns, threads, borrowed, closes, alive, heap>>

PushRef(h) ==
    /\ Running
    /\ Len(stack) < MaxStack
    /\ LET Done(out) ==
               /\ stack' = out.stack
               /\ last' = [NoLast EXCEPT !.op = "push_ref", !.t = h.rid,
                                         !.status = h.lua,
                                         !.from = last.from,
                                         !.res = IF out.abort THEN AbortRes ELSE Ok(<<>>),
                                         !.before = Len(stack),
                                         !.after = Len(out.stack),
                                         !.objs = SubSeq(out.stack, Len(stack) + 1,
                                                         Len(out.stack))]
       IN Done(push_ref(TopLua, stack, reg, RefOf(h)))
    /\ UNCHANGED <<reg, fns, threads, handles, borrowed, closes, alive, heap>>

Pop ==
    /\ Running
    /\ stack # <<>>
    /\ stack' = lua_pop(stack, 1)
    /\ last' = [NoLast EXCEPT !.op = "pop", !.before = Len(stack),
                              !.after = Len(stack) - 1]
    /\ UNCHANGED <<reg, fns, threads, handles, borrowed, closes, alive, heap>>

\* a handle is dropped; a foreign handle unpins in its own instance
Release(h) ==
    /\ Running
    /\ handles' = handles \ {h}
    /\ reg' = IF h.lua = TopLua.main_state THEN drop_ref(reg, RefOf(h)) ELSE reg
    /\ last' = [NoLast EXCEPT !.op = "release", !.t = h.rid, !.status = h.lua]
    /\ UNCHANGED <<stack, fns, threads, borrowed, closes, alive, heap>>

\* a garbage-collection step frees an object the engine cannot reach
Collect(o) ==
    /\ Running
    /\ o \notin heap.dead
    /\ IF o \in DOMAIN heap.drops THEN o \notin ReachableUserdata(stack, reg)
       ELSE o \notin Reachable(stack, reg)
    /\ heap' = [finalize(heap, o) EXCEPT !.dead = @ \cup {o}]
    /\ last' = [NoLast EXCEPT !.op = "collect", !.t = o]
    /\ UNCHANGED <<stack, reg, fns, threads, handles, borrowed, closes, alive>>

ForeignHandle(rid) ==
    /\ Running
    /\ \A h \in handles : h.lua = TopLua.main_state
    /\ Cardinality(handles) < MaxHandles
    /\ handles' = handles \cup {Handle("Table", LuaRef("L2", rid), 0)}
    /\ last' = [NoLast EXCEPT !.op = "foreign", !.t = rid]
    /\ UNCHANGED <<stack, reg, fns, threads, borrowed, closes, alive, heap>>

NextReg ==
    \/ NewTable
    \/ PopRef
    \/ \E h \in handles : PushRef(h)
    \/ Pop
    \/ \E h \in handles : Release(h)
    \/ \E o \in 1..heap.n : Collect(o)
    \/ \E rid \in {3, 4} : ForeignHandle(rid)

SpecReg == Init /\ [][NextReg]_vars

----------------------------------------------------------------------------
(* Registry claims. *)

\* C5: while a handle returned by pop_ref is alive its registry slot holds
\* the object it was pinned to and the engine has not collected that object.
C5_PinnedNotCollected ==
    \A h \in handles :
        h.lua = TopLua.main_state =>
            /\ lua_rawgeti(reg, h.rid) = Slot("table", "", h.obj)
            /\ h.obj \notin heap.dead

\* C5 witness: an object was collected while a handle pinned earlier than
\* it is still alive, its object off the stack
C5_Witness ==
    /\ last.op = "collect"
    /\ \E h \in handles :
          /\ h.lua = TopLua.main_state
          /\ h.obj \notin heap.dead
          /\ \A i \in DOMAIN stack : stack[i].v # h.obj

\* C6: push_ref of a handle minted in another Lua instance aborts and
\* pushes nothing.
C6_ForeignAborts ==
    (last.op = "push_ref" /\ last.status # TopLua.main_state) =>
        /\ last.res = AbortRes
        /\ last.objs = <<>>
        /\ last.after = last.before

\* C6 witness: push_ref was applied to a foreign handle whose id names a
\* pinned object of this instance
C6_Witness ==
    /\ last.op = "push_ref"
    /\ last.status = "L2"
    /\ lua_rawgeti(reg, last.t).ty = "table"
    /\ last.res = AbortRes

----------------------------------------------------------------------------
(* Call claims. *)

\* how many activations of closure f are open after the first i log entries
Depth(log, i, f) ==
    Cardinality({j \in 1..i : log[j].ev = "enter" /\ log[j].f = f})
      - Cardinality({j \in 1..i : log[j].ev = "exit" /\ log[j].f = f})

Reentries(log) == {i \in DOMAIN log : log[i].ev = "reentry"}

C3_PanicReraised ==
    (/\ last.op = "call"
     /\ \E i \in DOMAIN last.log :
           /\ last.log[i].ev = "exit" /\ last.log[i].tag = "Panic"
           /\ fns[last.log[i].f].end = "panic") =>
        last.res = PanicRes(1)

\* C4 (as claimed): no script code receives a wrapped panic as a value and
\* pop_value is never applied to one.
C4_NeverSurfaces ==
    last.op = "call" =>
        /\ \A i \in DOMAIN last.log : last.log[i].ev # "surfaced"
        /\ \A i \in DOMAIN last.objs : ~is_wrapped_panic(last.objs[i])

\* C7: lua_close has run exactly once after the owning Lua was dropped and
\* not at all before, however many ephemeral contexts were dropped.
C7_CloseOnce == closes = IF alive THEN 0 ELSE 1

\* C7 witness: the Lua is dropped after a call in which one closure ran
\* inside another
C7_Witness ==
    /\ last.op = "drop"
    /\ ~alive
    /\ closes = 1
    /\ \E i, j \in DOMAIN last.log :
          /\ i < j
          /\ last.log[i].ev = "enter" /\ last.log[j].ev = "enter"
          /\ Depth(last.log, j, last.log[i].f) = 1

----------------------------------------------------------------------------
(* Coroutine claims. *)

\* C8: a coroutine whose function yields n times and then returns answers
\* resume number k <= n with Ok and the k-th yield's values, resume n + 1
\* with Ok and the return values, every later resume with
\* Err(CoroutineInactive); and a fresh or suspended coroutine's resume never
\* answers CoroutineInactive.
C8_Lifecycle ==
    last.op = "resume" =>
        LET k == last.pre.pc + 1
            n == BodyOf(last.pre).n
        IN /\ (BodyOf(last.pre).end = "return" /\ last.aconv /\ last.rconv) =>
                 /\ k <= n => last.res = Ok(<<IntVal(k)>> \o last.args)
                 /\ k = n + 1 => last.res = Ok(<<IntVal(0)>> \o last.args)
                 /\ k > n + 1 => last.res = Err("CoroutineInactive")
           /\ last.pre.phase \in {"fresh", "suspended"} =>
                 last.res.err # "CoroutineInactive"

\* C8 witness: a coroutine that yielded at least once, returned, and was
\* resumed again
C8_Witness ==
    /\ last.op = "resume"
    /\ BodyOf(last.pre).end = "return"
    /\ BodyOf(last.pre).n >= 1
    /\ last.aconv /\ last.rconv
    /\ last.pre.pc + 1 = BodyOf(last.pre).n + 2
    /\ last.res = Err("CoroutineInactive")

\* C9 (as claimed): resuming a coroutine that raised an error in an earlier
\* resume returns Err(CoroutineInactive), whatever its stack still holds.
C9_ErroredInactive ==
    (last.op = "resume" /\ last.pre.phase = "errored") =>
        last.res = Err("CoroutineInactive")

\* C10: status is Resumable for a fresh or suspended coroutine, Unresumable
\* for one whose function returned, Error for one that raised an error.
C10_Status ==
    last.op = "status" =>
        last.status = CASE last.pre.phase \in {"fresh", "suspended"} -> "Resumable"
                        [] last.pre.phase = "returned" -> "Unresumable"
                        [] last.pre.phase = "errored" -> "Error"

\* C10 witness: status asked of a coroutine that yielded and then returned
C10_Witness ==
    /\ last.op = "status"
    /\ last.pre.phase = "returned"
    /\ last.pre.pc >= 2
    /\ last.status = "Unresumable"

----------------------------------------------------------------------------
(* Userdata scenario: values of the host types are wrapped, their handles  *)
(* dropped, and scripts index them.                                        *)

\* the keys scripts index with: the declared method name and another one
Keys == {Slot("string", "get", 0), Slot("string", "other", 0)}

\* a script evaluates ud[key] for the userdata h is pinned to; last.objs is
\* what it gets and last.log the calls of the Index metamethod
IndexUserdata(h, key) ==
    /\ Running
    /\ h.kind = "UserData"
    /\ LET Got(out) ==
               last' = [NoLast EXCEPT !.op = "index", !.t = heap.meta[h.obj].v,
                                      !.status = key.tag, !.objs = out.stack,
                                      !.log = out.called,
                                      !.res = IF out.ret = LUA_OK THEN Ok(<<>>)
                                              ELSE Err("RuntimeError")]
       IN Got(index_userdata(heap.meta[h.obj], lua_rawgeti(reg, h.rid), key))
    /\ UNCHANGED <<stack, reg, fns, threads, handles, borrowed, closes, alive,
                   heap>>

NextUd ==
    \/ \E T \in DOMAIN UserTypes :
          /\ heap.n < MaxUserdata
          /\ Cardinality(handles) < MaxHandles
          /\ CreateUserdata(T)
    \/ \E h \in handles : Release(h)
    \/ \E h \in handles, key \in Keys : IndexUserdata(h, key)

SpecUd == Init /\ [][NextUd]_vars

\* what T's metatable has under "__index", going by T's declaration
IndexKind(T) ==
    IF UserTypes[T].methods > 0
    THEN IF UserTypes[T].index THEN "meta_index_impl" ELSE "methods"
    ELSE IF UserTypes[T].index THEN "Index" ELSE ""

\* C12: a type's dispatch table is built at most once; once a type has a
\* cached registry id, every later userdata_metatable call for it returns
\* that id without building again; two types never share an id, and the
\* table under a type's id is the one built from that type's declaration.
C12_DispatchCached ==
    [][\A T \in DOMAIN UserTypes :
         /\ heap'.built[T] <= 1
         /\ heap.mt[T] # 0 =>
              /\ heap'.mt[T] = heap.mt[T]
              /\ heap'.built[T] = heap.built[T]
              /\ (last'.op = "create_userdata" /\ last'.t = T) =>
                    (last'.status = "cached" /\ last'.id = heap.mt[T])
         /\ heap'.mt[T] # 0 =>
              /\ \A U \in DOMAIN UserTypes \ {T} : heap'.mt[U] # heap'.mt[T]
              /\ lua_rawgeti(reg', heap'.mt[T]) = Slot("table", IndexKind(T), T)
      ]_vars

\* C12 witness: a second value of a type is wrapped, from the cache, while
\* another type has a table of its own
C12_Witness ==
    /\ last.op = "create_userdata"
    /\ last.status = "cached"
    /\ heap.built[last.t] = 1
    /\ \E U \in DOMAIN UserTypes \ {last.t} : heap.mt[U] # 0

\* C13 (as claimed): for a type declaring both methods and an Index
\* metamethod, a declared method name yields the method and the Index
\* metamethod is not called; any other key calls Index with (userdata, key)
\* and yields what it returns.
C13_MethodsShadowIndex ==
    (/\ last.op = "index"
     /\ UserTypes[last.t].methods > 0
     /\ UserTypes[last.t].index) =>
        IF last.status = "get"
        THEN last.objs = <<Slot("function", "method", 0)>> /\ last.log = <<>>
        ELSE /\ last.objs = <<Slot("string", "from Index", 0)>>
             /\ Len(last.log) = 1
             /\ last.log[1][2] = Slot("string", last.status, 0)

----------------------------------------------------------------------------
(* Bind scenario: one function f (a host closure or a script function,     *)
(* either returning what it is given), functions bound over it and over    *)
(* each other, and calls of any of them.                                   *)

\* the values bound when function number k is made: k1, k2, ...
BindLists(k) == {[i \in 1..n |-> IntVal(10 * k + i)] : n \in 0..MaxArgs}

\* the values calls pass
CallLists == {[i \in 1..n |-> IntVal(6 + i)] : n \in 0..MaxArgs}

NextBind ==
    \/ fns = <<>> /\ Load(FnDef("lua", 0, "return", 0, 0), TRUE)
    \/ fns = <<>> /\ CreateFunction(FnDef("callback", 0, "ok", 0, 0))
    \/ \E h \in handles, args \in BindLists(Len(fns) + 1) :
          Len(fns) < 1 + MaxBinds /\ Bind(h, args, TRUE)
    \/ \E h \in handles, args \in CallLists : Call(h, args, TRUE, TRUE)

SpecBind == Init /\ [][NextBind]_vars

\* the function at the bottom of a chain of binds, and the values bound
\* along the chain, innermost bind first
RECURSIVE BoundRoot(_)
BoundRoot(f) == IF fns[f].k = "bound" THEN BoundRoot(fns[f].g) ELSE f

RECURSIVE BoundPrefix(_)
BoundPrefix(f) ==
    IF fns[f].k = "bound"
    THEN BoundPrefix(fns[f].g) \o [i \in 1..fns[f].r |-> IntVal(10 * f + i)]
    ELSE <<>>

\* C14: calling a bound function with b1..bm calls f once with the bound
\* values, in the order the binds were made, followed by b1..bm, and
\* returns all that f returns (here f returns its arguments, the script
\* function after a 0), whatever the numbers of bound and passed values.
C14_BindPrepends ==
    (last.op = "call" /\ fns[last.t].k = "bound") =>
        LET f == BoundRoot(last.t)
            passed == BoundPrefix(last.t) \o last.args
        IN IF fns[f].k = "callback"
           THEN /\ last.res = Ok(passed)
                /\ last.log = <<Event("enter", f, "ok"), Event("exit", f, "Ok")>>
           ELSE last.res = Ok(<<IntVal(0)>> \o passed)

\* C14 witness: f.bind(a).bind(b) called with c
C14_Witness ==
    /\ last.op = "call"
    /\ fns[last.t].k = "bound"
    /\ fns[fns[last.t].g].k = "bound"
    /\ fns[last.t].r = 1 /\ fns[fns[last.t].g].r = 1
    /\ Len(last.args) = 1
    /\ last.res.kind = "Ok"
    /\ Len(last.res.vals) >= 3

----------------------------------------------------------------------------
(* Marshaling scenario: the host makes an object of any kind when it holds *)
(* no handle, pushes a Value and pops it at once (what a call does with an *)
(* argument it gets back), or pops a number the engine left on the stack.  *)

\* scalar and error Values: a float counts halves, so 6 is 3.0 and 7 is 3.5
MarshalScalars ==
    {NilVal, Val("Boolean", 0, 0, ""), Val("Boolean", 1, 0, ""),
     Val("LightUserData", 1, 0, ""), IntVal(3), Val("Number", 6, 0, ""),
     Val("Number", 7, 0, ""), Val("Error", 7, 0, "")}

\* number slots the engine leaves: the integer 3, the floats 3.0 and 3.5
NumberSlots == {IntSlot(3), FloatSlot(6), FloatSlot(7)}

\* push_value(v) then pop_value; last.objs is the object v referred to
\* before and the object the popped Value refers to after
RoundTrip(v, obj) ==
    /\ Running
    /\ LET Back(out) ==
               /\ stack' = out.stack
               /\ reg' = out.reg
               /\ handles' =
                     IF IsRefVal(v)
                     THEN {h \in handles : ValOf(h) # v} \cup
                          {Handle(out.val.var, LuaRef(out.val.lua, out.val.rid), obj)}
                     ELSE handles
               /\ last' = [NoLast EXCEPT
                             !.op = "round_trip", !.args = <<v>>,
                             !.res = Ok(<<out.val>>), !.before = Len(stack),
                             !.after = Len(out.stack),
                             !.objs = <<lua_rawgeti(reg, v.rid),
                                        lua_rawgeti(out.reg, out.val.rid)>>]
           Pushed(p) == Back(pop_value(TopLua, p.stack, p.reg))
       IN Pushed(push_value(TopLua, stack, reg, v))
    /\ UNCHANGED <<fns, threads, borrowed, closes, alive, heap>>

\* pop_value of a slot x the engine left on top of the stack
PopValue(x) ==
    /\ Running
    /\ LET Done(out) ==
               /\ stack' = out.stack
               /\ reg' = out.reg
               /\ last' = [NoLast EXCEPT
                             !.op = "pop_value", !.res = Ok(<<out.val>>),
                             !.before = Len(stack) + 1,
                             !.after = Len(out.stack), !.objs = <<x>>]
       IN Done(pop_value(TopLua, Append(stack, x), reg))
    /\ UNCHANGED <<fns, threads, handles, borrowed, closes, alive, heap>>

NextMarshal ==
    \/ \E str \in Strings : Room /\ CreateString(str)
    \/ Room /\ heap.n < MaxObjects /\ CreateTable
    \/ \E T \in DOMAIN UserTypes :
          Room /\ heap.n < MaxObjects /\ CreateUserdata(T)
    \/ \E def \in StackCallbacks :
          Room /\ Len(fns) < MaxFns /\ CreateFunction(def)
    \/ Room /\ Len(fns) < MaxFns
          /\ Load(FnDef("lua", 0, "return", 0, 0), TRUE)
    \/ \E h \in handles :
          h.kind = "Function" /\ fns[h.obj].k = "lua" /\ CreateThread(h)
    \/ \E v \in MarshalScalars : RoundTrip(v, 0)
    \/ \E h \in handles : RoundTrip(ValOf(h), h.obj)
    \/ \E x \in NumberSlots : PopValue(x)

SpecMarshal == Init /\ [][NextMarshal]_vars

C17_ConvertibleIsInteger ==
    last.op = "pop_value" =>
        (last.res.vals[1].var = "Integer" <=>
            lua_tointegerx(last.objs[1]).isint = 1)

----------------------------------------------------------------------------
(* Error scenario: host closures that return their arguments or return    *)
(* Err(e) (e is 7), script functions that call the function made just      *)
(* before them, plainly or under pcall, after yielding n times; the host   *)
(* calls them, or wraps a script function in a coroutine and resumes it.   *)

ErrCallbacks == {FnDef("callback", 0, e, 0, 0) : e \in {"ok", "err"}}

ErrScripts(id) ==
    IF id > 1
    THEN {FnDef("lua", n, "call", 0, id - 1) : n \in 0..1} \cup
         {FnDef("lua", 0, "pcall", 0, id - 1)}
    ELSE {}

NextErr ==
    \/ \E def \in ErrCallbacks : Len(fns) < MaxFns /\ CreateFunction(def)
    \/ \E def \in ErrScripts(Len(fns) + 1) : Len(fns) < MaxFns /\ Load(def, TRUE)
    \/ \E h \in handles, args \in {<<>>, <<IntVal(1)>>} : Call(h, args, TRUE, TRUE)
    \/ \E h \in handles :
          /\ h.kind = "Function"
          /\ fns[h.obj].k = "lua" /\ fns[h.obj].end = "call"
          /\ CreateThread(h)
    \/ \E h \in handles, args \in {<<>>, <<IntVal(1)>>} : Resume(h, args, TRUE, TRUE)

SpecErr == Init /\ [][NextErr]_vars

\* the host closure whose Err a call of function f lets through to the
\* caller of f: f itself, or the one reached through plain script calls
\* (0 when there is none)
RECURSIVE Thrower(_)
Thrower(f) ==
    IF fns[f].k = "callback" THEN (IF fns[f].end = "err" THEN f ELSE 0)
    ELSE IF fns[f].k = "lua" /\ fns[f].end = "call" /\ fns[f].n = 0
    THEN Thrower(fns[f].g)
    ELSE 0

\* the resume recorded in last made the coroutine's body call its function
CallingResume ==
    /\ last.op = "resume"
    /\ last.pre.phase \in {"fresh", "suspended"}
    /\ fns[threads[last.t].fn].end = "call"
    /\ last.pre.pc = fns[threads[last.t].fn].n

\* C18: when a host closure returns Err(e) and nothing between it and the
\* host catches the error, Function::call and Thread::resume return
\* Err(CallbackError) with cause e and one layer of wrapping: neither
\* RuntimeError nor a panic.
C18_CallbackErrorCause ==
    /\ last.op = "call" /\ Thrower(last.t) # 0 =>
            last.res = Res("Err", "CallbackError", <<>>, 7, 1)
    /\ CallingResume /\ Thrower(fns[threads[last.t].fn].g) # 0 =>
            last.res = Res("Err", "CallbackError", <<>>, 7, 1)

\* C18 witness: a script function calls a closure that returns Err(7) and
\* the host's call of the script function returns CallbackError around 7
C18_Witness ==
    /\ last.op = "call"
    /\ fns[last.t].k = "lua"
    /\ Thrower(last.t) # 0
    /\ last.res = Res("Err", "CallbackError", <<>>, 7, 1)

----------------------------------------------------------------------------
(* Error paths under the fallible guard. *)

\* the slots an error path leaves on the stack when its body returns
Leftover ==
    CASE last.op = "resume" /\ last.res.err = "CoroutineInactive" -> 1
      [] last.op = "create_table_from" /\ last.status = "k" -> 1
      [] last.op = "create_table_from" /\ last.status = "v" -> 2
      [] OTHER -> 0

\* C19 (as claimed): when the body of an operation under the fallible
\* guard returns Err, the stack is already as deep as before the call.
C19_ErrPathsClean ==
    last.seen >= 0 /\ last.res.kind = "Err" => last.seen = last.before

\* C19 (amended): when the body of an operation under the fallible guard
\* returns Err the stack is as deep as before the call, except that
\* resume's CoroutineInactive return leaves the coroutine on it and
\* create_table_from's failed conversion leaves the new table, and the key
\* when it is the value that failed; the guard truncates the stack and the
\* operation returns at the depth it started.
C19_GuardTruncates ==
    last.seen >= 0 /\ last.res.kind = "Err" =>
        /\ last.seen = last.before + Leftover
        /\ last.after = last.before

\* C19 witness: resume of a finished coroutine returns CoroutineInactive
\* from a body that left the coroutine on the stack
C19_Witness ==
    /\ last.op = "resume"
    /\ last.res = Err("CoroutineInactive")
    /\ last.seen = last.before + 1
    /\ last.after = last.before

----------------------------------------------------------------------------
(* The closure's exclusive-access guard. *)

\* an invocation of host closure f ended during the operation logged
Exited(log, f) ==
    \E i \in DOMAIN log : log[i].ev = "exit" /\ log[i].f = f

\* C20: no closure's guard is held once an operation is over, and a call of
\* a host closure whose invocation ended in the operation before, by
\* returning values, by returning Err or by panicking, enters the closure.
C20_GuardReleased ==
    [][/\ borrowed' = {}
       /\ \A f \in DOMAIN fns :
             (/\ last.op = "call" /\ Exited(last.log, f)
              /\ fns[f].k = "callback"
              /\ last'.op = "call" /\ last'.t = f)
             => /\ last'.log # <<>>
                /\ last'.log[1] = Event("enter", f, fns[f].end)]_vars

\* C20 witness: a closure was entered, panicked, and its guard is not held
C20_Witness ==
    /\ last.op = "call"
    /\ fns[last.t].k = "callback" /\ fns[last.t].end = "panic"
    /\ last.log = <<Event("enter", last.t, "panic"), Event("exit", last.t, "Panic")>>
    /\ last.res.kind = "Panic"
    /\ borrowed = {}

----------------------------------------------------------------------------
(* Coercion scenario: the host makes one object of any kind and coerces a  *)
(* scalar, an error or the handle it holds.                                *)

\* nothing has been made yet
Unused == handles = {} /\ reg = InitReg

NextCoerce ==
    \/ \E str \in Strings : Unused /\ CreateString(str)
    \/ Unused /\ heap.n < MaxObjects /\ CreateTable
    \/ \E T \in DOMAIN UserTypes : Unused /\ heap.n < MaxObjects /\ CreateUserdata(T)
    \/ \E def \in StackCallbacks : Unused /\ Len(fns) < MaxFns /\ CreateFunction(def)
    \/ Unused /\ Len(fns) < MaxFns /\ Load(FnDef("lua", 0, "return", 0, 0), TRUE)
    \/ \E h \in handles :
          h.kind = "Function" /\ fns[h.obj].k = "lua" /\ CreateThread(h)
    \/ \E v \in MarshalScalars \cup {ValOf(h) : h \in handles} :
          (Room \/ IsRefVal(v)) /\ CoerceString(v)
    \/ \E v \in MarshalScalars \cup {ValOf(h) : h \in handles} : CoerceInteger(v)
    \/ \E v \in MarshalScalars \cup {ValOf(h) : h \in handles} : CoerceNumber(v)

SpecCoerce == Init /\ [][NextCoerce]_vars

\* C21: a coercion of a value that is neither a string nor a number fails
\* with FromLuaConversionError, `from` names the type of the value passed
\* in, and the stack is as deep as before.
C21_CoerceNamesType ==
    /\ last.op \in {"coerce_string", "coerce_integer", "coerce_number"}
    /\ last.args[1].var \notin {"String", "Integer", "Number"}
    => /\ last.res = Err("FromLuaConversionError")
       /\ last.after = last.before
       /\ last.from = CASE last.args[1].var = "Nil" -> "nil"
                         [] last.args[1].var = "Boolean" -> "boolean"
                         [] last.args[1].var = "LightUserData" -> "light userdata"
                         [] last.args[1].var = "Table" -> "table"
                         [] last.args[1].var = "Function" -> "function"
                         [] last.args[1].var = "Thread" -> "thread"
                         [] last.args[1].var \in {"UserData", "Error"} -> "userdata"

\* C21 witness: coerce_number of a light userdata
C21_Witness ==
    /\ last.op = "coerce_number"
    /\ last.args[1].var = "LightUserData"
    /\ last.res = Err("FromLuaConversionError")
    /\ last.from = "light userdata"

----------------------------------------------------------------------------
(* Order scenario: script functions that return their arguments, alone     *)
(* ("echo") or after 0 ("return"), and a host closure that returns its     *)
(* arguments, called with lists of distinct values.                        *)

OrderBodies ==
    {FnDef("lua", 0, "echo", 0, 0), FnDef("lua", 0, "return", 0, 0),
     FnDef("callback", 0, "ok", 0, 0)}

NextOrder ==
    \/ \E def \in OrderBodies :
          Len(fns) < MaxFns /\ def.k = "lua" /\ Load(def, TRUE)
    \/ \E def \in OrderBodies :
          Len(fns) < MaxFns /\ def.k = "callback" /\ CreateFunction(def)
    \/ \E h \in handles, args \in CallLists, aconv \in BOOLEAN, rconv \in BOOLEAN :
          Call(h, args, aconv, rconv)

SpecOrder == Init /\ [][NextOrder]_vars

\* C22: Function::call hands the script function its arguments in the
\* order given and hands the result conversion the function's return
\* values in the order returned, for any number of them.
C22_CallOrder ==
    last.op = "call" /\ last.aconv /\ last.rconv =>
        last.res = CASE fns[last.t].end = "return" -> Ok(<<IntVal(0)>> \o last.args)
                     [] OTHER -> Ok(last.args)

\* C22 witness: two arguments come back as two results in the same order
C22_Witness ==
    /\ last.op = "call"
    /\ fns[last.t] = FnDef("lua", 0, "echo", 0, 0)
    /\ Len(last.args) = 2 /\ last.args[1] # last.args[2]
    /\ last.res = Ok(last.args)

----------------------------------------------------------------------------
(* Library scenario: the call scenario, in which the host may also ask for *)
(* the debug library.                                                      *)

LoadDebug ==
    /\ Running
    /\ heap' = load_debug(heap)
    /\ last' = [NoLast EXCEPT !.op = "load_debug", !.before = Len(stack),
                              !.after = Len(stack)]
    /\ UNCHANGED <<stack, reg, fns, threads, handles, borrowed, closes, alive>>

NextLibs ==
    \/ NextCall
    \/ LoadDebug

SpecLibs == Init /\ [][NextLibs]_vars

\* C23: after Lua::new the debug library is not loaded and pcall, xpcall
\* and setmetatable are bound to the hardened replacements; the debug
\* library becomes loaded only by a call of load_debug.
C23_DebugGated ==
    /\ "debug" \notin heap.loaded
    /\ heap.G = [pcall |-> "safe_pcall", xpcall |-> "safe_xpcall",
                 setmetatable |-> "safe_setmetatable"]
    /\ [][("debug" \in heap'.loaded /\ "debug" \notin heap.loaded)
            => last'.op = "load_debug"]_vars

\* C23 witness: a script function that uses pcall has been called and the
\* debug library is still not loaded
C23_Witness ==
    /\ last.op = "call"
    /\ fns[last.t].end = "pcall"
    /\ "debug" \notin heap.loaded
    /\ heap.G.pcall = "safe_pcall"

(* Finalizer scenario: host values of the types are wrapped, the host     *)
(* releases handles, the engine collects objects nothing refers to, and   *)
(* the Lua goes out of scope.                                             *)

NextGc ==
    \/ \E T \in DOMAIN UserTypes :
          /\ heap.n < MaxUserdata
          /\ Cardinality(handles) < MaxHandles
          /\ CreateUserdata(T)
    \/ \E h \in handles : Release(h)
    \/ \E o \in 1..heap.n : Collect(o)
    \/ DropLua

SpecGc == Init /\ [][NextGc]_vars

\* the process has ended: the Lua was dropped, or a fatal abort
Ended == ~alive \/ last.res.kind = "Abort"

\* C24 (as claimed): the value wrapped by create_userdata is dropped once
\* when the engine collects its object or the Lua is closed; it is never
\* dropped twice, and never left undropped, also when the building of the
\* type's metatable is what fails.
C24_DroppedOnce ==
    \A o \in DOMAIN heap.drops :
        /\ heap.drops[o] <= 1
        /\ (o \in heap.dead \/ Ended) => heap.drops[o] = 1

\* C24: what holds of the values whose object got its metatable
C24_DroppedOnceWithMetatable ==
    \A o \in DOMAIN heap.meta :
        /\ heap.drops[o] <= 1
        /\ heap.drops[o] = 1 <=> o \in heap.dead

----------------------------------------------------------------------------
(* Allocator scenario: the engine asks the allocator for a new block,    *)
(* for another size of a block it holds, or to free one (size 0); realloc *)
(* may fail at any request.                                               *)

Allocate(ptr, nsize) ==
    /\ Running
    /\ \E got \in realloc(heap.blocks, ptr, nsize) :
          LET Done(out) ==
                  /\ heap' = [heap EXCEPT !.blocks = out.blocks]
                  /\ last' = [NoLast EXCEPT !.op = "allocator",
                                            !.args = <<ptr, nsize>>,
                                            !.t = out.p,
                                            !.status = IF got.p = 0 THEN "null" ELSE "",
                                            !.res = IF out.abort THEN AbortRes
                                                    ELSE Ok(<<>>)]
          IN Done(allocator(heap.blocks, ptr, nsize, got))
    /\ UNCHANGED <<stack, reg, fns, threads, handles, borrowed, closes, alive>>

NextAlloc ==
    \E ptr \in {0} \cup DOMAIN heap.blocks, nsize \in 0..MaxSize : Allocate(ptr, nsize)

SpecAlloc == Init /\ [][NextAlloc]_vars

\* C25: the allocator never returns null for a request of nonzero size:
\* it returns a block of that size or the process is aborted; a request
\* of size zero frees the block and returns null, and does not abort.
C25_AllocatorNeverFails ==
    last.op = "allocator" =>
        IF last.args[2] # 0
        THEN \/ last.res.kind = "Abort"
             \/ /\ last.t # 0
                /\ last.t \in DOMAIN heap.blocks
                /\ heap.blocks[last.t] = last.args[2]
        ELSE /\ last.t = 0
             /\ last.res.kind = "Ok"
             /\ last.args[1] \notin DOMAIN heap.blocks

\* C25 witness: realloc failed on a request to grow a block, and the
\* process was aborted
C25_Witness ==
    /\ last.op = "allocator"
    /\ last.args[1] # 0
    /\ last.args[2] # 0
    /\ last.status = "null"
    /\ last.res.kind = "Abort"

----------------------------------------------------------------------------
(* Slot scenario: the host makes one object of each kind, push_value     *)
(* moves scalars, errors and handles onto the stack, the engine leaves a  *)
(* userdata of its own on top, pop_value takes the top slot, and the host *)
(* comes to hold a handle of another Lua.                                 *)

\* the scalar and error variants, one Value of each
VariantScalars ==
    {NilVal, Val("Boolean", 1, 0, ""), Val("LightUserData", 1, 0, ""), IntVal(3),
     Val("Number", 7, 0, ""), Val("Error", 7, 0, "")}

\* userdata the engine leaves on the stack: a wrapped error raised by a
\* callback, and a wrapped panic handed over by coroutine.resume
LeftUserdata == {WrappedErrorSlot(7), WrappedPanicSlot(0)}

\* Lua::push_value (lua.rs 968-1014) of v; a handle moved in is gone
PushValue(v) ==
    /\ Running
    /\ Len(stack) < MaxStack
    /\ LET Done(out) ==
               /\ stack' = out.stack
               /\ reg' = out.reg
               /\ handles' = {h \in handles : ValOf(h) # v}
               /\ last' = [NoLast EXCEPT
                             !.op = "push_value", !.args = <<v>>,
                             !.status = v.var,
                             !.res = IF out.abort THEN AbortRes ELSE Ok(<<>>),
                             !.before = Len(stack), !.after = Len(out.stack),
                             !.objs = SubSeq(out.stack, Len(stack) + 1,
                                             Len(out.stack))]
       IN Done(push_value(TopLua, stack, reg, v))
    /\ UNCHANGED <<fns, threads, borrowed, closes, alive, heap>>

\* the engine leaves slot x on top of the stack
Leave(x) ==
    /\ Running
    /\ Len(stack) < MaxStack
    /\ stack' = Append(stack, x)
    /\ last' = [NoLast EXCEPT !.op = "leave", !.before = Len(stack),
                              !.after = Len(stack) + 1, !.objs = <<x>>]
    /\ UNCHANGED <<reg, fns, threads, handles, borrowed, closes, alive, heap>>

\* the registry slots in use
Pinned(r) == Len(r.arr) - Len(r.free)

\* Lua::pop_value (lua.rs 1017-1068) of the top slot; last.t is the number
\* of registry slots pinned by it, last.id the registry id in the Value
PopTop ==
    /\ Running
    /\ stack # <<>>
    /\ Cardinality(handles) < MaxHandles
    /\ LET Done(out) ==
               /\ stack' = out.stack
               /\ reg' = out.reg
               /\ handles' =
                     IF IsRefVal(out.val)
                     THEN handles \cup
                          {Handle(out.val.var, LuaRef(out.val.lua, out.val.rid),
                                  Top(stack).v)}
                     ELSE handles
               /\ last' = [NoLast EXCEPT
                             !.op = "pop_top", !.res = Ok(<<out.val>>),
                             !.status = Top(stack).ty,
                             !.before = Len(stack), !.after = Len(out.stack),
                             !.objs = <<Top(stack)>>,
                             !.t = Pinned(out.reg) - Pinned(reg),
                             !.id = out.val.rid]
       IN Done(pop_value(TopLua, stack, reg))
    /\ UNCHANGED <<fns, threads, borrowed, closes, alive, heap>>

NextSlots ==
    \/ \E str \in {Slot("string", "hello", 0)} : Unused /\ CreateString(str)
    \/ Unused /\ heap.n < MaxObjects /\ CreateTable
    \/ Unused /\ heap.n < MaxObjects /\ CreateUserdata(1)
    \/ Unused /\ Len(fns) < MaxFns
          /\ Load(FnDef("lua", 0, "return", 0, 0), TRUE)
    \/ \E h \in handles :
          h.kind = "Function" /\ fns[h.obj].k = "lua" /\ CreateThread(h)
    \/ \E rid \in {3} : Unused /\ ForeignHandle(rid)
    \/ \E v \in VariantScalars \cup {ValOf(h) : h \in handles} : PushValue(v)
    \/ \E x \in LeftUserdata : Leave(x)
    \/ PopTop

SpecSlots == Init /\ [][NextSlots]_vars

\* C26: a push_value that returns has made the stack one slot deeper,
\* whatever the variant of the Value; pop_value makes it one slot
\* shallower, whatever the type tag of the top slot.
C26_OneSlot ==
    /\ (last.op = "push_value" /\ last.res.kind = "Ok") =>
           last.after = last.before + 1
    /\ last.op = "pop_top" => last.after = last.before - 1

\* C26 witness: a thread handle was pushed and the thread slot is popped
C26_Witness ==
    /\ last.op = "pop_top"
    /\ last.status = "thread"
    /\ last.res.vals[1].var = "Thread"
    /\ last.after = last.before - 1

----------------------------------------------------------------------------
(* Headroom scenario: what each operation does to the depth of a stack,    *)
(* step by step: check_stack(n), pushes, pops, and values the engine       *)
(* delivers (the results of a call or a resume, for which the engine has   *)
(* made room itself).  Thread::resume works on two stacks, its own state   *)
(* ("L") and the coroutine's ("co").                                       *)

\* a step: what is done, how many slots, on which stack
Check(n) == <<"check_stack", n, "L">>
Pushes(n) == <<"push", n, "L">>
Pops(n) == <<"pop", n, "L">>
Results(n) == <<"results", n, "L">>

\* the steps, done on stack st
RECURSIVE On(_, _)
On(st, steps) ==
    IF steps = <<>> THEN <<>>
    ELSE <<<<Head(steps)[1], Head(steps)[2], st>>>> \o On(st, Tail(steps))

\* steps, n times over
RECURSIVE Repeat(_, _)
Repeat(steps, n) == IF n = 0 THEN <<>> ELSE steps \o Repeat(steps, n - 1)

\* pop_ref (lua.rs 1092): luaL_ref pushes one slot of its own before it
\* pops the value
pop_ref_slots == <<Pushes(1), Pops(2)>>

\* pop_value (lua.rs 1017-1068) of a slot that is pinned (isref) or not
pop_value_slots(isref) == IF isref THEN pop_ref_slots ELSE <<Pops(1)>>

\* for _ in 0..n { pop_value }: kinds[i] says whether slot i is pinned
RECURSIVE PopValues_slots(_)
PopValues_slots(kinds) ==
    IF kinds = <<>> THEN <<>>
    ELSE pop_value_slots(kinds[Len(kinds)])
           \o PopValues_slots(SubSeq(kinds, 1, Len(kinds) - 1))

\* pcall_with_traceback(state, nargs, LUA_MULTRET): the traceback handler
\* is pushed below the function, the call replaces function and arguments
\* by the results, or by the one error value, and the handler is removed
pcall_with_traceback_slots(nargs, nres, fails) ==
    <<Pushes(1), Pops(nargs + 2), Results(IF fails THEN 1 ELSE nres)>>

\* Function::call (lua.rs 204-222); handle_error pops the error value
call_slots_m(nargs, kinds, fails) ==
    <<Check(nargs + 1), Pushes(1)>> \o Repeat(<<Pushes(1)>>, nargs)
      \o pcall_with_traceback_slots(nargs, Len(kinds), fails)
      \o (IF fails THEN <<Pops(1)>> ELSE <<Check(1)>> \o PopValues_slots(kinds))
call_slots(nargs, kinds, fails) ==
    <<Check(nargs + 3), Pushes(1)>> \o Repeat(<<Pushes(1)>>, nargs)
      \o pcall_with_traceback_slots(nargs, Len(kinds), fails)
      \o (IF fails THEN <<Pops(1)>> ELSE <<Check(1)>> \o PopValues_slots(kinds))

\* Function::bind (lua.rs 283-295): function, count, arguments, the
\* closure over them, pop_ref
bind_slots(nargs) ==
    <<Check(nargs + 3), Pushes(1), Pushes(1)>> \o Repeat(<<Pushes(1)>>, nargs)
      \o <<Pops(nargs + 2), Pushes(1)>> \o pop_ref_slots

\* bind_call_impl (lua.rs 260-277), entered with nargs slots: lua_settop,
\* lua_rotate, lua_pushvalue and lua_replace for the function and for
\* each bound value, lua_call
bind_call_impl_slots(nargs, nbinds, nres) ==
    <<Check(nbinds + 2), Pushes(nbinds + 1)>>
      \o Repeat(<<Pushes(1), Pops(1)>>, 1 + nbinds)
      \o <<Pops(nargs + nbinds + 1), Results(nres)>>

\* Thread::resume (lua.rs 373-404); an inactive coroutine is reported with
\* its slot still on the stack, which the guard removes
resume_slots(nargs, kinds, inactive) ==
    <<Check(1), Pushes(1), Pops(1)>>
      \o (IF inactive THEN <<>>
          ELSE On("co", <<Check(nargs)>> \o Repeat(<<Pushes(1)>>, nargs)
                          \o <<Pops(nargs), Results(Len(kinds)), Check(1)>>
                          \o PopValues_slots(kinds)))

\* Lua::create_table_from (lua.rs 673-682) of n pairs
create_table_from_slots(n) ==
    <<Check(3), Pushes(1)>> \o Repeat(<<Pushes(1), Pushes(1), Pops(2)>>, n)
      \o pop_ref_slots

\* callback_call_impl (lua.rs 927-942), entered with the arguments on the
\* stack, for a closure that returns nres values
callback_call_impl_slots(kinds, nres) ==
    <<Check(1)>> \o PopValues_slots(kinds)
      \o <<Check(nres)>> \o Repeat(<<Pushes(1)>>, nres)

\* Lua::create_callback_function (lua.rs 948-962): the closure's userdata,
\* the key of the function metatable, lua_gettable, lua_setmetatable,
\* lua_pushcclosure, pop_ref
create_callback_function_slots ==
    <<Check(2), Pushes(1), Pushes(1), Pops(1), Pushes(1), Pops(1), Pops(1),
      Pushes(1)>> \o pop_ref_slots

\* push_value(Value::Function(create_callback_function(m)))
method_slots == create_callback_function_slots \o <<Pushes(1)>>

\* Lua::userdata_metatable (lua.rs 1121-1219) for host type T
userdata_metatable_slots(T, cached) ==
    <<Check(5), Pushes(1), Pops(1), Pushes(1), Pops(1)>>
      \o (IF cached \/ UserTypes[T].panics THEN <<>>
          ELSE <<Pushes(1)>>
            \o (IF UserTypes[T].methods > 0
                THEN <<Pushes(1), Pushes(1)>>
                       \o Repeat(<<Pushes(1)>> \o method_slots \o <<Pops(2)>>,
                                 UserTypes[T].methods)
                       \o <<Pops(2)>>
                ELSE <<>>)
            \o (IF ~UserTypes[T].index THEN <<>>
                ELSE IF UserTypes[T].methods > 0
                THEN <<Pushes(1), Pushes(1), Pops(1), Pushes(1)>> \o method_slots
                       \o <<Pops(2), Pushes(1), Pops(2)>>
                ELSE <<Pushes(1)>> \o method_slots \o <<Pops(2)>>)
            \o <<Pushes(1), Pushes(1), Pops(2)>>                \* __gc
            \o <<Pushes(1), Pushes(1), Pops(2)>>                \* __metatable
            \o <<Pushes(1), Pops(2)>>)                          \* luaL_ref

\* Lua::create_userdata (lua.rs 772-785)
create_userdata_slots(T, cached) ==
    <<Check(3), Pushes(1)>> \o userdata_metatable_slots(T, cached)
      \o (IF UserTypes[T].panics THEN <<>>
          ELSE <<Pushes(1), Pops(1)>> \o pop_ref_slots)

\* the slots in use above the depth of the latest check_stack never
\* exceed what it reserved, from depth slots in use, the latest
\* reservation being room slots above base
RECURSIVE Headroom(_, _, _, _)
Headroom(steps, depth, base, room) ==
    LET Step(e, rest) ==
            CASE e[1] = "check_stack" -> Headroom(rest, depth, depth, e[2])
              [] e[1] = "push" ->
                    /\ depth + e[2] - base <= room
                    /\ Headroom(rest, depth + e[2], base, room)
              [] e[1] = "pop" -> Headroom(rest, depth - e[2], base, room)
              [] e[1] = "results" ->
                    Headroom(rest, depth + e[2], depth + e[2], 0)
    IN IF steps = <<>> THEN TRUE ELSE Step(Head(steps), Tail(steps))

\* the steps on stack st
Of(st, steps) ==
    LET Here(e) == e[3] = st
    IN SelectSeq(steps, Here)

\* an operation entered with d0 slots in use and nothing reserved
Fits(steps, d0) ==
    /\ Headroom(Of("L", steps), d0, d0, 0)
    /\ Headroom(Of("co", steps), d0, d0, 0)

\* pinned or not, for each of up to MaxArgs values
KindLists == UNION {[1..n -> BOOLEAN] : n \in 0..MaxArgs}

Uses(op, steps, d0) ==
    /\ Running
    /\ last' = [NoLast EXCEPT !.op = op, !.log = steps, !.before = d0]
    /\ UNCHANGED <<stack, reg, fns, threads, handles, borrowed, closes, alive,
                   heap>>

NextRoom ==
    \/ \E nargs \in 0..MaxArgs, kinds \in KindLists, fails \in BOOLEAN,
          d0 \in 0..MaxStack :
          Uses("call", call_slots(nargs, kinds, fails), d0)
    \/ \E nargs \in 0..MaxArgs, d0 \in 0..MaxStack :
          Uses("bind", bind_slots(nargs), d0)
    \/ \E nargs \in 0..MaxArgs, nbinds \in 0..MaxBinds, nres \in 0..MaxArgs :
          Uses("bind_call_impl", bind_call_impl_slots(nargs, nbinds, nres), nargs)
    \/ \E nargs \in 0..MaxArgs, kinds \in KindLists, inactive \in BOOLEAN,
          d0 \in 0..MaxStack :
          Uses("resume", resume_slots(nargs, kinds, inactive), d0)
    \/ \E n \in 0..MaxArgs, d0 \in 0..MaxStack :
          Uses("create_table_from", create_table_from_slots(n), d0)
    \/ \E T \in DOMAIN UserTypes, cached \in BOOLEAN, d0 \in 0..MaxStack :
          Uses("create_userdata", create_userdata_slots(T, cached), d0)
    \/ \E T \in DOMAIN UserTypes, cached \in BOOLEAN, d0 \in 0..MaxStack :
          Uses("userdata_metatable", userdata_metatable_slots(T, cached), d0)
    \/ \E kinds \in KindLists, nres \in 0..MaxArgs :
          Uses("callback_call_impl", callback_call_impl_slots(kinds, nres),
               Len(kinds))

SpecRoom == Init /\ [][NextRoom]_vars

\* C28: in Function::call, Function::bind, bind_call_impl, Thread::resume,
\* create_table_from, create_userdata, userdata_metatable and the callback
\* trampoline, at every push the slots in use above the depth of the
\* latest check_stack (the extra slot of pop_ref and the traceback handler
\* included) are no more than that check_stack reserved.
C28_Headroom ==
    last.op # "new" => Fits(last.log, last.before)

\* C28 witness: Function::call with MaxArgs arguments returns pinned
\* values, popped after the second check_stack
C28_Witness ==
    /\ last.op = "call"
    /\ last.log[1] = Check(MaxArgs + 3)
    /\ Check(1) \in {last.log[i] : i \in DOMAIN last.log}
    /\ Len(last.log) > MaxArgs + 8
    /\ Fits(last.log, last.before)

----------------------------------------------------------------------------
(* Trampoline scenario: host closures that return their arguments, only   *)
(* the first of them, or Err, and script code that calls one of them with *)
(* a frame of values.                                                     *)

TrampCallbacks == {FnDef("callback", 0, e, 0, 0) : e \in {"ok", "first", "err"}}

\* the slots script code passes
FrameSlots == {IntSlot(7), FloatSlot(7), Slot("string", "hello", 0)}

Frames == UNION {[1..n -> FrameSlots] : n \in 0..MaxArgs}

\* the engine calls the C function behind handle h with frame as its stack
Invoke(h, frame) ==
    /\ Running
    /\ h.kind = "Function"
    /\ fns[h.obj].k = "callback"
    /\ LET Done(out) ==
               /\ reg' = out.c.reg
               /\ borrowed' = out.c.borrowed
               /\ closes' = out.c.closes
               /\ last' = [NoLast EXCEPT
                             !.op = "callback_call_impl", !.t = h.obj,
                             !.status = fns[h.obj].end,
                             !.objs = frame,
                             !.res = IF out.ret = LUA_OK THEN Ok(<<>>)
                                     ELSE Err("CallbackError"),
                             !.args = IF out.ret = LUA_OK THEN out.frame
                                      ELSE out.vals,
                             !.after = IF out.ret = LUA_OK THEN out.nresults
                                       ELSE 0 - 1,
                             !.log = out.c.log]
       IN Done(callback_call_impl(fns, handles, h.obj, frame,
                                  Ctx(reg, borrowed, closes, <<>>)))
    /\ UNCHANGED <<stack, fns, threads, handles, alive, heap>>

NextTramp ==
    \/ \E def \in TrampCallbacks : Unused /\ CreateFunction(def)
    \/ \E h \in handles, frame \in Frames : Invoke(h, frame)

SpecTramp == Init /\ [][NextTramp]_vars

\* C29: when the trampoline succeeds, the frame it leaves holds the
\* closure's results and nothing else, in the closure's order, the count
\* it returns is their number, and the closure was given the arguments in
\* the order script code passed them: a closure returning its arguments
\* leaves the frame as it found it, one returning its first argument
\* leaves the first slot of the frame.
C29_ArgsInResultsOut ==
    (last.op = "callback_call_impl" /\ last.res.kind = "Ok") =>
        /\ last.after = Len(last.args)
        /\ last.status = "ok" => last.args = last.objs
        /\ last.status = "first" => last.args = FirstOf(last.objs)

\* C29 witness: a closure given a number and a string returns the number
C29_Witness ==
    /\ last.op = "callback_call_impl"
    /\ last.status = "first"
    /\ last.objs = <<FloatSlot(7), Slot("string", "hello", 0)>>
    /\ last.args = <<FloatSlot(7)>>
    /\ last.after = 1

----------------------------------------------------------------------------
\* the two entries every metatable made by the crate ends with
Finalized == <<"__gc", Slot("function", "userdata_destructor", 0)>>
Protected == <<"__metatable", BoolSlot(FALSE)>>

\* C30: the metatable built for a host type has __gc and __metatable =
\* false, whatever methods and metamethods the type declares, and so has
\* the metatable shared by host closures.
C30_GcAndProtected ==
    /\ \A T \in DOMAIN UserTypes :
          heap.mt[T] # 0 => {Finalized, Protected} \subseteq heap.keys[T]
    /\ {Finalized, Protected} \subseteq heap.fnmeta

\* C30 witness: a metatable was just built for a type that declares
\* nothing, after one for a type with methods and an Index metamethod
C30_Witness ==
    /\ last.op = "create_userdata"
    /\ last.status = "built"
    /\ ~UserTypes[last.t].index
    /\ UserTypes[last.t].methods = 0
    /\ heap.keys[last.t] = {Finalized, Protected}
    /\ \E U \in DOMAIN UserTypes :
          UserTypes[U].index /\ UserTypes[U].methods > 0 /\ heap.mt[U] # 0

----------------------------------------------------------------------------
\* C31: push_ref of a live handle of this instance pushes the object the
\* handle was pinned to and changes neither the handle nor the registry,
\* whatever was pinned, released or pinned again under a freed id before.
C31_PushKeepsHandle ==
    [][\A h \in handles :
         (/\ last'.op = "push_ref"
          /\ last'.t = h.rid
          /\ last'.status = h.lua
          /\ h.lua = TopLua.main_state) =>
             /\ last'.res = Ok(<<>>)
             /\ last'.objs = <<Slot("table", "", h.obj)>>
             /\ stack' = Append(stack, Slot("table", "", h.obj))
             /\ handles' = handles
             /\ reg' = reg
      ]_vars

\* C31 witness: the same handle was pushed a second time after another
\* handle was released and its registry id given to a handle of another
\* object
C31_Witness ==
    /\ last.op = "push_ref"
    /\ last.from = "reused"
    /\ last.res = Ok(<<>>)
    /\ Len(stack) = 2
    /\ stack[1] = stack[2]
    /\ \E h \in handles, g \in handles :
          /\ h.rid = last.t /\ h.lua = TopLua.main_state
          /\ stack[2] = Slot("table", "", h.obj)
          /\ g.lua = TopLua.main_state
          /\ g.rid < h.rid
          /\ g.obj # h.obj

----------------------------------------------------------------------------
(* Guard scenario: host closures that return their arguments, fail, or     *)
(* call a function through a handle they captured; the host clones a       *)
(* Function handle, which pins the same function object under a second     *)
(* registry id, and calls a closure through one handle while the closures  *)
(* hold the others.                                                        *)

\* Clone for Function (its LuaRef): push_ref, then pop_ref
CloneFunction(h) ==
    /\ Running
    /\ h.kind = "Function"
    /\ \A x \in handles, y \in handles : ObjOf(reg, x) = ObjOf(reg, y) => x = y
    /\ LET Done(out) ==
               /\ stack' = out.stack
               /\ reg' = out.reg
               /\ handles' = handles \cup {Handle("Function", out.lref, h.obj)}
               /\ last' = [NoLast EXCEPT !.op = "clone", !.t = h.obj,
                                         !.id = out.lref.rid,
                                         !.before = Len(stack),
                                         !.after = Len(out.stack)]
           Pushed(p) == Done(pop_ref(TopLua, p.stack, reg))
       IN Pushed(push_ref(TopLua, stack, reg, RefOf(h)))
    /\ UNCHANGED <<fns, threads, borrowed, closes, alive, heap>>

\* Function::call through handle h of a closure that has another handle;
\* the closures' captured handles are the others (history: id is the
\* registry id the host called through)
CallOther(h, args) ==
    /\ Running
    /\ h.kind = "Function"
    /\ \E x \in handles \ {h} : ObjOf(reg, x) = ObjOf(reg, h)
    /\ LET Dropped(out, vals) ==
               /\ stack' = out.stack
               /\ reg' = DropValues(out.c.reg, vals)
               /\ borrowed' = out.c.borrowed
               /\ closes' = out.c.closes
               /\ last' = [NoLast EXCEPT !.op = "call", !.res = out.res,
                                         !.t = ObjOf(reg, h), !.args = args,
                                         !.id = h.rid,
                                         !.before = Len(stack),
                                         !.after = Len(out.stack),
                                         !.log = out.c.log]
           Done(out) == Dropped(out, out.res.vals)
       IN Done(Function_call(TopLua, stack, Ctx(reg, borrowed, closes, <<>>),
                             fns, handles \ {h}, RefOf(h), args, TRUE, TRUE))
    /\ UNCHANGED <<fns, threads, handles, alive, heap>>

NextGuard ==
    \/ \E def \in CallbackBodies(Len(fns) + 1) :
          Len(fns) < MaxFns /\ CreateFunction(def)
    \/ \E h \in handles : Len(fns) = MaxFns /\ CloneFunction(h)
    \/ \E h \in handles, args \in {<<>>, <<IntVal(1)>>} : CallOther(h, args)

SpecGuard == Init /\ [][NextGuard]_vars

\* C32: a closure is refused exactly when it is itself executing: no body
\* is entered while it runs, also when the call comes through another
\* handle to the same closure than the one the host called through, and a
\* closure that calls a different closure, one that returns its arguments,
\* gets them back and returns them to the host.
C32_GuardPerClosure ==
    last.op = "call" =>
        /\ \A i \in DOMAIN last.log :
              /\ last.log[i].ev = "enter" =>
                    Depth(last.log, i - 1, last.log[i].f) = 0
              /\ last.log[i].ev = "reentry" =>
                    Depth(last.log, i - 1, last.log[i].f) = 1
        /\ (/\ fns[last.t].end = "call"
            /\ fns[last.t].g = last.t) =>
               /\ last.res.kind \notin {"Ok", "Abort"}
               /\ Reentries(last.log) = {2}
        /\ (/\ fns[last.t].end = "call"
            /\ fns[last.t].g \in 1..Len(fns)
            /\ fns[last.t].g # last.t
            /\ fns[fns[last.t].g].end = "ok") =>
               /\ last.res = Ok(last.args)
               /\ Reentries(last.log) = {}

\* C32 witness: the host called closure A through one handle and A called
\* itself through its other handle, which has another registry id
C32_Witness ==
    /\ last.op = "call"
    /\ fns[last.t].end = "call" /\ fns[last.t].g = last.t
    /\ Reentries(last.log) # {}
    /\ \E x \in handles :
          /\ ObjOf(reg, x) = last.t
          /\ x.rid # last.id
          /\ x = HandleTo(handles \ {y \in handles : y.rid = last.id}, reg, last.t)

----------------------------------------------------------------------------
\* C33: a resume that fails with CoroutineInactive or on converting its
\* arguments leaves every coroutine as it was, and so does a status call;
\* a status call that follows a status call or such a resume of the same
\* coroutine gives the answer the state before gave.
C33_FailedResumeKeeps ==
    [][/\ (/\ last'.op = "resume"
           /\ (~last'.aconv \/ last'.res = Err("CoroutineInactive"))) =>
              /\ last'.res.kind = "Err"
              /\ threads' = threads
       /\ last'.op = "status" =>
              /\ threads' = threads
              /\ last'.status = status_of(last'.pre.status,
                                          lua_gettop(last'.pre.stack))
              /\ (/\ last.t = last'.t
                  /\ \/ last.op = "status"
                     \/ /\ last.op = "resume"
                        /\ (~last.aconv \/ last.res = Err("CoroutineInactive"))) =>
                    last'.status = status_of(last.pre.status,
                                             lua_gettop(last.pre.stack))
      ]_vars

\* C33 witness: the arguments of a resume of a suspended coroutine failed
\* to convert, and the coroutine is suspended as before
C33_Witness ==
    /\ last.op = "resume"
    /\ ~last.aconv
    /\ last.res = Err("ToLuaConversionError")
    /\ last.pre.status = LUA_YIELD
    /\ threads[last.t] = last.pre

----------------------------------------------------------------------------
(* Agreement scenario: in each state of a coroutine the host asks its      *)
(* status and resumes it.  Between operations it does so through the       *)
(* owning context.  While the coroutine runs, a host closure called from   *)
(* it does so with k values in the running frame, through a handle of the  *)
(* owning context or through one it was handed inside the closure, whose   *)
(* context's state is the coroutine itself.                                *)

\* (history: status is the answer of Thread::status, res the result of
\* Thread::resume from the same state, id whether that resume changed the
\* coroutine, frame the size of the running frame, from the context)
Asked(t, k, ctx, pre, status, out) ==
    [NoLast EXCEPT !.op = "ask", !.res = out.res, !.t = t, !.pre = pre[t],
                   !.status = status.status, !.frame = k, !.from = ctx,
                   !.id = IF out.threads = pre THEN 0 ELSE 1]

AskIdle(h) ==
    /\ Running
    /\ h.kind = "Thread"
    /\ LET Done(t, status, out) ==
               /\ stack' = out.stack
               /\ reg' = DropValues(out.reg, out.res.vals)
               /\ threads' = out.threads
               /\ last' = Asked(t, 0 - 1, "owner", threads, status, out)
       IN Done(ObjOf(reg, h),
               Thread_status(TopLua, stack, reg, threads, RefOf(h)),
               Thread_resume(TopLua, stack, reg, threads, fns, RefOf(h), <<>>,
                             TRUE, TRUE))
    /\ UNCHANGED <<fns, handles, borrowed, closes, alive, heap>>

\* the coroutine is resumed, and while it runs a closure asks
AskRunning(h, k, own) ==
    /\ Running
    /\ h.kind = "Thread"
    /\ threads[ObjOf(reg, h)].phase \in {"fresh", "suspended"}
    /\ LET Done(outer, inner) ==
               /\ stack' = outer.stack
               /\ reg' = DropValues(outer.reg, outer.res.vals)
               /\ threads' = outer.threads
               /\ last' = inner
           Inside(t, lua, frame, view) ==
               Asked(t, k, IF own THEN "callback" ELSE "owner", view,
                     Thread_status(lua, frame, reg, view, RefOf(h)),
                     Thread_resume(lua, frame, reg, view, fns, RefOf(h), <<>>,
                                   TRUE, TRUE))
           Within(t) ==
               Inside(t,
                      IF own THEN Lua(ToString(t), "L1", TRUE) ELSE TopLua,
                      IF own THEN [i \in 1..k |-> NilSlot] ELSE stack,
                      [threads EXCEPT ![t] = running_view(@, k)])
       IN Done(Thread_resume(TopLua, stack, reg, threads, fns, RefOf(h), <<>>,
                             TRUE, TRUE),
               Within(ObjOf(reg, h)))
    /\ UNCHANGED <<fns, handles, borrowed, closes, alive, heap>>

NextAgree ==
    \/ \E def \in CoBodies :
          /\ Len(fns) < MaxThreads
          /\ \A h \in handles : h.kind # "Function"
          /\ Load(def, TRUE)
    \/ \E h \in handles : CreateThread(h)
    \/ \E h \in handles : AskIdle(h)
    \/ \E h \in handles, k \in 0..MaxStack, own \in BOOLEAN : AskRunning(h, k, own)

SpecAgree == Init /\ [][NextAgree]_vars

\* C34 (as claimed): wherever Thread::status answers Unresumable,
\* Thread::resume from the same state returns Err(CoroutineInactive) and
\* leaves the coroutine alone, and wherever status answers Resumable,
\* resume does not return Err(CoroutineInactive).
C34_StatusResumeAgree ==
    last.op = "ask" =>
        /\ last.status = "Unresumable" =>
              /\ last.res = Err("CoroutineInactive")
              /\ last.id = 0
        /\ last.status = "Resumable" => last.res # Err("CoroutineInactive")

\* the same, for status and resume asked through the owning context
C34_AgreeThroughOwner ==
    (last.op = "ask" /\ last.from = "owner") =>
        /\ last.status = "Unresumable" =>
              /\ last.res = Err("CoroutineInactive")
              /\ last.id = 0
        /\ last.status = "Resumable" => last.res # Err("CoroutineInactive")

----------------------------------------------------------------------------
(* Pins scenario: the host makes a string, wraps values of host types,     *)
(* loads script functions and registers closures, and calls and resumes    *)
(* them passing the string: a handle passed as an argument is given away,  *)
(* and the host keeps the handles it is returned.                          *)

PinBodies ==
    {FnDef("lua", 0, "echo", 0, 0), FnDef("lua", 1, "return", 0, 0),
     FnDef("callback", 0, "ok", 0, 0), FnDef("callback", 0, "err", 0, 0)}

\* the argument lists: nothing, or the string
PinLists ==
    {<<>>} \cup {<<ValOf(g)>> : g \in {x \in handles : x.kind = "String"}}

\* the handles given away in args, and the handles returned in vals
Given(args) == {g \in handles : \E i \in DOMAIN args : args[i] = ValOf(g)}
Returned(vals) ==
    {Handle(vals[i].var, LuaRef(vals[i].lua, vals[i].rid), 0) :
        i \in {j \in DOMAIN vals : IsRefVal(vals[j])}}

CallKeeping(h, args, rconv) ==
    /\ Running
    /\ h.kind = "Function"
    /\ LET Done(out) ==
               /\ stack' = out.stack
               /\ reg' = out.c.reg
               /\ borrowed' = out.c.borrowed
               /\ closes' = out.c.closes
               /\ handles' = (handles \ Given(args)) \cup Returned(out.res.vals)
               /\ last' = [NoLast EXCEPT !.op = "call", !.res = out.res,
                                         !.t = ObjOf(reg, h), !.args = args,
                                         !.rconv = rconv,
                                         !.id = Pinned(reg),
                                         !.before = Len(stack),
                                         !.after = Len(out.stack)]
       IN Done(Function_call(TopLua, stack, Ctx(reg, borrowed, closes, <<>>),
                             fns, handles, RefOf(h), args, TRUE, rconv))
    /\ UNCHANGED <<fns, threads, alive, heap>>

ResumeKeeping(h, args, rconv) ==
    /\ Running
    /\ h.kind = "Thread"
    /\ LET Done(t, out) ==
               /\ stack' = out.stack
               /\ reg' = IF out.res = Err("CoroutineInactive")
                         THEN DropValues(out.reg, args)  \* args never converted
                         ELSE out.reg
               /\ threads' = out.threads
               /\ handles' = (handles \ Given(args)) \cup Returned(out.res.vals)
               /\ last' = [NoLast EXCEPT !.op = "resume", !.res = out.res, !.t = t,
                                         !.args = args, !.pre = threads[t],
                                         !.rconv = rconv,
                                         !.id = Pinned(reg),
                                         !.before = Len(stack),
                                         !.after = Len(out.stack)]
       IN Done(ObjOf(reg, h),
               Thread_resume(TopLua, stack, reg, threads, fns, RefOf(h), args,
                             TRUE, rconv))
    /\ UNCHANGED <<fns, borrowed, closes, alive, heap>>

NextPins ==
    \/ /\ \A h \in handles : h.kind # "String"
       /\ fns # <<>>
       /\ CreateString(Slot("string", "hello", 0))
    \/ \E T \in DOMAIN UserTypes :
          /\ Unused
          /\ UserTypes[T].methods > 0 \/ UserTypes[T].index
          /\ CreateUserdata(T)
    \/ \E h \in handles : h.kind = "UserData" /\ Release(h)
    \/ \E def \in PinBodies : fns = <<>> /\ def.k = "lua" /\ Load(def, TRUE)
    \/ \E def \in PinBodies :
          fns = <<>> /\ def.k = "callback" /\ CreateFunction(def)
    \/ \E h \in handles :
          h.kind = "Function" /\ fns[h.obj].k = "lua" /\ CreateThread(h)
    \/ \E h \in handles, args \in PinLists, rconv \in BOOLEAN :
          CallKeeping(h, args, rconv)
    \/ \E h \in handles, args \in PinLists, rconv \in BOOLEAN :
          ResumeKeeping(h, args, rconv)

SpecPins == Init /\ [][NextPins]_vars

\* the dispatch tables entered in the cache
Registered == {T \in DOMAIN UserTypes : heap.mt[T] # 0}

\* C35: after every operation that returns, the registry slots in use,
\* beyond the two the engine starts with, are one for each handle the host
\* holds and one for each host type whose dispatch table was built.
C35_PinsOwned ==
    last.res.kind # "Abort" =>
        Pinned(reg) - 2 = Cardinality(handles) + Cardinality(Registered)

\* C35 witness: a closure was called with a handle and returned it, the
\* host holds the handle returned, and a dispatch table with methods and
\* an Index metamethod has been built
C35_Witness ==
    /\ last.op = "call"
    /\ fns[last.t].k = "callback"
    /\ last.res.kind = "Ok"
    /\ Returned(last.res.vals) # {}
    /\ Returned(last.res.vals) \subseteq handles
    /\ \E T \in Registered : UserTypes[T].index /\ UserTypes[T].methods > 0

----------------------------------------------------------------------------
(* Handles of the owning context on an ephemeral one: closures that hold  *)
(* a value, made through the top-level context or by another instance,    *)
(* and return a clone of it; the engine runs them on the main state or on *)
(* a coroutine, and the trampoline pushes the result through the context  *)
(* it built over that state.                                              *)

\* the strings the host makes
OwnerStrings == {Slot("string", x, 0) : x \in {"hello", "bye"}}

\* a closure that holds the value of handle g and returns a clone of it
GiverOf(g) == [FnDef("callback", 0, "give", 0, 0) EXCEPT !.up = <<ValOf(g)>>]

\* the engine calls the C function behind handle h, with frame as its
\* stack, on the state of thread t (history: last.from is the state,
\* last.objs what the closure's value is pinned to, last.pre the registry
\* before the call)
InvokeOn(h, frame, t) ==
    /\ Running
    /\ h.kind = "Function"
    /\ fns[h.obj].k = "callback"
    /\ LET Done(out) ==
               /\ reg' = out.c.reg
               /\ borrowed' = out.c.borrowed
               /\ closes' = out.c.closes
               /\ last' = [NoLast EXCEPT
                             !.op = "callback_call_impl", !.t = h.obj,
                             !.status = fns[h.obj].end,
                             !.from = StateOf(t),
                             !.objs = <<lua_rawgeti(reg, fns[h.obj].up[1].rid)>>,
                             !.pre = reg,
                             !.res = IF out.ret = LUA_OK THEN Ok(<<>>)
                                     ELSE IF out.ret < 0 THEN AbortRes
                                     ELSE Err("CallbackError"),
                             !.args = IF out.ret = LUA_OK THEN out.frame
                                      ELSE out.vals,
                             !.after = IF out.ret = LUA_OK THEN out.nresults
                                       ELSE 0 - 1,
                             !.log = out.c.log]
       IN Done(callback_call_impl(fns, handles, h.obj, frame,
                                  [Ctx(reg, borrowed, closes, <<>>)
                                     EXCEPT !.state = StateOf(t)]))
    /\ UNCHANGED <<stack, fns, threads, handles, alive, heap>>

NextOwner ==
    \/ \E str \in OwnerStrings :
          /\ fns = <<>>
          /\ Cardinality(handles) < MaxHandles
          /\ CreateString(str)
    \/ \E rid \in {3, 4} : fns = <<>> /\ ForeignHandle(rid)
    \/ \E g \in handles :
          /\ g.kind \in {"String", "Table"}
          /\ Len(fns) < MaxFns
          /\ CreateFunction(GiverOf(g))
    \/ /\ Len(fns) = MaxFns
       /\ Load(FnDef("lua", 1, "return", 0, 0), TRUE)
    \/ \E h \in handles :
          h.kind = "Function" /\ fns[h.obj].k = "lua" /\ CreateThread(h)
    \/ \E h \in handles, frame \in {<<>>, <<IntSlot(7)>>}, t \in 0..Len(threads) :
          /\ h.kind = "Function"
          /\ InvokeOn(h, frame, t)

SpecOwner == Init /\ [][NextOwner]_vars

\* C36: a closure's value made through the top-level context is pushed by
\* the context the trampoline builds, on the main state and on a coroutine
\* alike: the frame is left holding the object the value is pinned to and
\* the registry holds the pins it held; only a value of another instance is
\* refused, and then nothing is read from this registry.
C36_OwnerAccepted ==
    (last.op = "callback_call_impl" /\ last.status = "give") =>
        LET v == fns[last.t].up[1]
        IN /\ v.lua = TopLua.main_state =>
                 /\ last.res.kind = "Ok"
                 /\ last.after = 1
                 /\ last.args = last.objs
                 /\ Pinned(reg) = Pinned(last.pre)
           /\ v.lua # TopLua.main_state =>
                 /\ last.res.kind = "Abort"
                 /\ reg = last.pre

\* C36 witness: a closure run on a coroutine returned the string the host
\* made through the top-level context, and the frame holds that string
C36_Witness ==
    /\ last.op = "callback_call_impl"
    /\ last.status = "give"
    /\ last.from = StateOf(1)
    /\ last.res.kind = "Ok"
    /\ fns[last.t].up[1].lua = TopLua.main_state
    /\ last.args = <<Slot("string", "bye", 0)>>
    /\ \E h \in handles : h.kind = "Thread" /\ h.obj = 1

----------------------------------------------------------------------------
\* C11 (as claimed): Thread::status asked of a coroutine while it is running
\* answers Unresumable, however many values the running frame holds.
C11_RunningUnresumable ==
    last.frame >= 0 => last.status = "Unresumable"

====
